---------------------------- MODULE Spec2Model ----------------------------
(***************************************************************************)
(* kv-downloader: the audio pipeline of src/audio/processor.rs             *)
(* (AudioProcessor::process_downloads and the functions it calls).         *)
(*                                                                         *)
(* Conventions of the model                                                *)
(*  - A Rust String / file name is a sequence of one-character strings.    *)
(*  - A directory is the sequence of its entries in the order read_dir     *)
(*    yields them; an entry is [name, data].                               *)
(*  - The content of a compressed input file is what symphonia makes of    *)
(*    it: whether the probe succeeds, whether there is a default track,    *)
(*    the sample rate of the codec parameters and the packets in order.    *)
(*  - f64 values are rationals and f64 arithmetic is exact; a Duration is  *)
(*    [secs, nanos] as in core::time, with the rounding to a whole number  *)
(*    of nanoseconds that Duration::from_secs_f64 makes.                   *)
(*  - All quantities stay far below 2^31, so the u32 casts of the source   *)
(*    neither saturate nor wrap within the bounds of the model.            *)
(***************************************************************************)
EXTENDS Integers, Sequences, FiniteSets, TLC

(***************************************************************************)
(* Bounds of the model.                                                    *)
(***************************************************************************)
MaxFiles == 3

MaxUnitFrames == 2

MaxSongs == 2

MaxPackets == 3

MaxTracks == 3

MaxRuns == 2

(***************************************************************************)
(* Program constants.                                                      *)
(***************************************************************************)
NANOS_PER_SEC == 1000000000

DEFAULT_SAMPLE_RATE == 44100

I16_MAX == 32767

I16_MIN == -32768

FORCED_CHANNELS == 2

BITS_PER_SAMPLE == 16

HEAD_LENGTH_FIELD == 24

MARKER == <<"_","C","u","s","t","o","m","_","B","a","c","k","i","n","g","_","T","r","a","c","k",")">>

CLICK == <<"c","l","i","c","k">>

MP3_EXT == <<"m","p","3">>

WAV_EXT == <<"w","a","v">>

MONO_TAG == <<"_","m","o","n","o">>

STEMS_PREFIX == <<"S","T","E","M","S","/">>

WAV_MONO_DIR == <<"W","A","V"," ","M","O","N","O">>

(***************************************************************************)
(* The state: the file system and the position in process_downloads.       *)
(***************************************************************************)
VARIABLES
  download_dir,     \* the entries of the download directory, as read_dir yields them
  keep_mp3s,        \* the argument keep_mp3s
  pc,               \* the statement of process_downloads that runs next
  click_path,       \* the click track find_tracks returned
  click_duration,   \* its duration
  click_wav_path,   \* the stereo file of the click track
  alignment,        \* per Member processed: its path and the durations computed
  other_wav_paths,  \* the stereo files of the Members, in the order processed
  wav_st_dir,       \* STEMS/WAV ST
  wav_mono_dir,     \* STEMS/WAV MONO
  mono_paths,       \* the mono files, in the order converted
  idx,              \* the position of the loop that is running
  project,          \* MT PROJECT/<title>.rpp: [exists, tracks]
  omf,              \* MT PROJECT/project.omf: [exists, bytes, pos]
  aaf,              \* the locals of generate_aaf
  mp3_dir,          \* STEMS/MP3
  urls,             \* start_download: the songs of the run, in order
  index,            \* start_download: the position in urls (0: a single call)
  sessions,         \* start_download: what became of the songs of this run so far
  generated,        \* the documents of an earlier run of the two generators
  skip_count,       \* start_download: the number of urls to pass over
  run,              \* the number of the run of the command (1: the first)
  tab               \* download_song: the mixer page and the locals of the loop over it

vars ==
  <<download_dir, keep_mp3s, pc, click_path, click_duration, click_wav_path,
    alignment, other_wav_paths, wav_st_dir, wav_mono_dir, mono_paths, idx,
    project, omf, aaf, mp3_dir, urls, index, sessions, generated, skip_count, run, tab>>

(***************************************************************************)
(* Strings.                                                                *)
(***************************************************************************)
\* u8 value of each character the model uses (str::as_bytes on ASCII text).
AsciiCode ==
  " " :> 32 @@ "(" :> 40 @@ ")" :> 41 @@ "." :> 46 @@ "/" :> 47 @@ "3" :> 51 @@
  "A" :> 65 @@ "B" :> 66 @@ "C" :> 67 @@ "D" :> 68 @@ "E" :> 69 @@ "F" :> 70 @@
  "G" :> 71 @@ "H" :> 72 @@ "I" :> 73 @@ "J" :> 74 @@ "K" :> 75 @@ "L" :> 76 @@
  "M" :> 77 @@ "N" :> 78 @@ "O" :> 79 @@ "P" :> 80 @@ "R" :> 82 @@ "S" :> 83 @@
  "T" :> 84 @@ "V" :> 86 @@ "W" :> 87 @@ "\\" :> 92 @@ "_" :> 95 @@ "a" :> 97 @@
  "c" :> 99 @@ "e" :> 101 @@ "g" :> 103 @@ "i" :> 105 @@ "k" :> 107 @@
  "l" :> 108 @@ "m" :> 109 @@ "n" :> 110 @@ "o" :> 111 @@ "p" :> 112 @@
  "r" :> 114 @@ "s" :> 115 @@ "t" :> 116 @@ "u" :> 117 @@ "v" :> 118 @@
  "w" :> 119 @@ "x" :> 120 @@ "y" :> 121

as_bytes(s) == [i \in 1..Len(s) |-> AsciiCode[s[i]]]

\* char::to_lowercase on the upper-case letters the model uses.
LowerOf ==
  "A" :> "a" @@ "B" :> "b" @@ "C" :> "c" @@ "D" :> "d" @@ "E" :> "e" @@
  "F" :> "f" @@ "G" :> "g" @@ "H" :> "h" @@ "I" :> "i" @@ "J" :> "j" @@
  "K" :> "k" @@ "L" :> "l" @@ "M" :> "m" @@ "N" :> "n" @@ "O" :> "o" @@
  "P" :> "p" @@ "R" :> "r" @@ "S" :> "s" @@ "T" :> "t" @@ "V" :> "v" @@
  "W" :> "w"

to_lowercase(s) ==
  [i \in 1..Len(s) |-> IF s[i] \in DOMAIN LowerOf THEN LowerOf[s[i]] ELSE s[i]]

\* str::replace of one character by another.
replace(s, from, to) == [i \in 1..Len(s) |-> IF s[i] = from THEN to ELSE s[i]]

\* str::find: the 1-based index of the first occurrence of pat in s, 0 for None.
find(s, pat) ==
  LET hits == {i \in 1..(Len(s) - Len(pat) + 1) :
                 SubSeq(s, i, i + Len(pat) - 1) = pat}
  IN IF hits = {} THEN 0 ELSE CHOOSE i \in hits : \A j \in hits : i <= j

contains(s, pat) == find(s, pat) # 0

\* 1-based index of the last "." of a file name that starts an extension
\* (Path::extension / file_stem: a leading dot starts none), 0 for none.
ExtDot(name) ==
  LET dots == {i \in 2..Len(name) : name[i] = "."}
  IN IF dots = {} THEN 0 ELSE CHOOSE i \in dots : \A j \in dots : j <= i

extension(name) ==
  IF ExtDot(name) = 0 THEN <<>> ELSE SubSeq(name, ExtDot(name) + 1, Len(name))

has_extension(name, ext) == ExtDot(name) # 0 /\ extension(name) = ext

file_stem(name) ==
  IF ExtDot(name) = 0 THEN name ELSE SubSeq(name, 1, ExtDot(name) - 1)

with_extension(name, ext) == file_stem(name) \o <<".">> \o ext

normalize_track_name(filename) ==
  LET start_idx == find(filename, <<"(">>)
      rest == SubSeq(filename, start_idx, Len(filename))
      end_idx == find(rest, MARKER)
  IN IF start_idx # 0 /\ end_idx # 0
       THEN replace(SubSeq(filename, start_idx + 1, start_idx + end_idx - 2), "_", " ")
       ELSE replace(filename, "_", " ")

(***************************************************************************)
(* Durations.                                                              *)
(***************************************************************************)
\* <<q, r>> with n * k = q * d + r and 0 <= r < d, computed without any
\* intermediate value reaching 2^31 (n, d <= 10^9).
RECURSIVE MulDivRem(_, _, _)
MulDivRem(n, k, d) ==
  IF k = 0 THEN <<0, 0>>
  ELSE LET h == MulDivRem(n, k \div 2, d)
           q2 == (2 * h[1]) + ((2 * h[2]) \div d)
           r2 == (2 * h[2]) % d
           add == IF k % 2 = 1 THEN n ELSE 0
           q3 == q2 + (add \div d)
           r3 == r2 + (add % d)
       IN <<q3 + (r3 \div d), r3 % d>>

\* Duration::from_secs_f64 of the f64 num / den: the value rounded to the
\* nearest whole number of nanoseconds, ties to even.
from_secs_f64(num, den) ==
  LET whole == num \div den
      qr == MulDivRem(NANOS_PER_SEC, num % den, den)
      up == (2 * qr[2] > den) \/ (2 * qr[2] = den /\ qr[1] % 2 = 1)
      nanos == qr[1] + (IF up THEN 1 ELSE 0)
  IN IF nanos = NANOS_PER_SEC THEN [secs |-> whole + 1, nanos |-> 0]
                              ELSE [secs |-> whole, nanos |-> nanos]

DurationLE(a, b) == a.secs < b.secs \/ (a.secs = b.secs /\ a.nanos <= b.nanos)

ZERO == [secs |-> 0, nanos |-> 0]

\* Mutant of saturating_sub: the distance between the two durations.
abs_diff(a, b) ==
  LET hi == IF DurationLE(a, b) THEN b ELSE a
      lo == IF DurationLE(a, b) THEN a ELSE b
  IN IF hi.nanos >= lo.nanos
       THEN [secs |-> hi.secs - lo.secs, nanos |-> hi.nanos - lo.nanos]
       ELSE [secs |-> hi.secs - lo.secs - 1,
             nanos |-> hi.nanos + NANOS_PER_SEC - lo.nanos]

\* Duration::saturating_sub
saturating_sub(a, b) ==
  IF DurationLE(a, b) THEN ZERO
  ELSE IF a.nanos >= b.nanos
         THEN [secs |-> a.secs - b.secs, nanos |-> a.nanos - b.nanos]
         ELSE [secs |-> a.secs - b.secs - 1,
               nanos |-> a.nanos + NANOS_PER_SEC - b.nanos]

\* (d.as_secs_f64() * rate as f64) as u32
secs_times_rate_as_u32(d, rate) ==
  d.secs * rate + MulDivRem(d.nanos, rate, NANOS_PER_SEC)[1]

\* Rust's integer division and float-to-integer cast: towards zero.
TruncDiv(a, b) == IF a >= 0 THEN a \div b ELSE -((-a) \div b)

(***************************************************************************)
(* Files and directories.                                                  *)
(***************************************************************************)
\* A directory of output files is a function from file names to contents.
EmptyDir == [n \in {} |-> 0]

FsWrite(dir, name, content) ==
  [n \in (DOMAIN dir) \cup {name} |-> IF n = name THEN content ELSE dir[n]]

FsRemove(dir, name) == [n \in (DOMAIN dir) \ {name} |-> dir[n]]

\* std::fs::rename within or between directories of output files.
FsRename(dir, from, to) == FsWrite(FsRemove(dir, from), to, dir[from])

\* The sequence s without its i-th element.
RemoveAt(s, i) == SubSeq(s, 1, i - 1) \o SubSeq(s, i + 1, Len(s))

\* The permutations of a finite set, as sequences.
Orders(S) ==
  {s \in [1..Cardinality(S) -> S] : \A i, j \in 1..Cardinality(S) : s[i] = s[j] => i = j}

Names(dir) == {dir[i].name : i \in 1..Len(dir)}

(***************************************************************************)
(* decode_mp3                                                              *)
(***************************************************************************)
\* (x * i16::MAX as f32) as i16 for the f32 x = n / d: truncated towards
\* zero, saturating at the ends of i16.
f32_to_i16(x) ==
  LET t == TruncDiv(x[1] * I16_MAX, x[2])
  IN IF t > I16_MAX THEN I16_MAX ELSE IF t < I16_MIN THEN I16_MIN ELSE t

\* Mutant of BufferSamples: a one-channel buffer contributes one sample a frame.
RECURSIVE BufferSamplesOneChannelOnce(_, _)
BufferSamplesOneChannelOnce(packet, frame) ==
  IF frame > Len(packet.frames) THEN <<>>
  ELSE LET f == packet.frames[frame]
           left == IF packet.decoded = "F32" THEN f32_to_i16(f[1]) ELSE f[1]
           right == IF packet.decoded = "F32" THEN f32_to_i16(f[2]) ELSE f[2]
       IN (IF packet.channels > 1 THEN <<left, right>> ELSE <<left>>)
            \o BufferSamplesOneChannelOnce(packet, frame + 1)

\* The samples one decoded buffer contributes: left and right of every
\* frame, the right one being the left one again for a one-channel buffer.
RECURSIVE BufferSamples(_, _)
BufferSamples(packet, frame) ==
  IF frame > Len(packet.frames) THEN <<>>
  ELSE LET f == packet.frames[frame]
           left == IF packet.decoded = "F32" THEN f32_to_i16(f[1]) ELSE f[1]
           right == IF packet.channels > 1
                      THEN (IF packet.decoded = "F32" THEN f32_to_i16(f[2]) ELSE f[2])
                      ELSE left
       IN <<left, right>> \o BufferSamples(packet, frame + 1)

\* Mutant of PacketLoop: a decode error ends the loop.
RECURSIVE PacketLoopEndsAtDecodeError(_, _, _)
PacketLoopEndsAtDecodeError(packets, i, samples) ==
  IF i > Len(packets) \/ packets[i].next # "Ok"
    THEN [ok |-> TRUE, samples |-> samples]
  ELSE IF packets[i].decoded \in {"F32", "S16"}
    THEN PacketLoopEndsAtDecodeError(packets, i + 1,
                                     samples \o BufferSamples(packets[i], 1))
  ELSE IF packets[i].decoded = "DecodeError"
    THEN [ok |-> TRUE, samples |-> samples]
  ELSE [ok |-> FALSE, samples |-> <<>>]

\* Mutant of PacketLoop: a buffer of another sample format is passed over.
RECURSIVE PacketLoopSkipsOtherFormats(_, _, _)
PacketLoopSkipsOtherFormats(packets, i, samples) ==
  IF i > Len(packets) \/ packets[i].next # "Ok"
    THEN [ok |-> TRUE, samples |-> samples]
  ELSE IF packets[i].decoded \in {"F32", "S16"}
    THEN PacketLoopSkipsOtherFormats(packets, i + 1,
                                     samples \o BufferSamples(packets[i], 1))
  ELSE IF packets[i].decoded \in {"DecodeError", "U8"}
    THEN PacketLoopSkipsOtherFormats(packets, i + 1, samples)
  ELSE [ok |-> FALSE, samples |-> <<>>]

\* The packet loop: [ok, samples] from packet i on, given the samples so far.
RECURSIVE PacketLoop(_, _, _)
PacketLoop(packets, i, samples) ==
  IF i > Len(packets) \/ packets[i].next # "Ok"
    THEN [ok |-> TRUE, samples |-> samples]
  ELSE IF packets[i].decoded \in {"F32", "S16"}
    THEN PacketLoop(packets, i + 1, samples \o BufferSamples(packets[i], 1))
  ELSE IF packets[i].decoded = "DecodeError"
    THEN PacketLoop(packets, i + 1, samples)
  ELSE [ok |-> FALSE, samples |-> <<>>]

NoSpec == [channels |-> 0, sample_rate |-> 0, bits_per_sample |-> 0]

decode_mp3(data) ==
  IF ~data.probe \/ ~data.default_track
    THEN [ok |-> FALSE, spec |-> NoSpec, samples |-> <<>>]
  ELSE LET sample_rate == IF data.sample_rate = 0 THEN DEFAULT_SAMPLE_RATE
                                                   ELSE data.sample_rate
           loop == PacketLoop(data.packets, 1, <<>>)
       IN IF ~loop.ok THEN [ok |-> FALSE, spec |-> NoSpec, samples |-> <<>>]
          ELSE [ok |-> TRUE,
                spec |-> [channels |-> FORCED_CHANNELS, sample_rate |-> sample_rate,
                          bits_per_sample |-> BITS_PER_SAMPLE],
                samples |-> loop.samples]

get_mp3_duration(data) ==
  LET d == decode_mp3(data)
  IN IF ~d.ok THEN [ok |-> FALSE, duration |-> ZERO]
     ELSE [ok |-> TRUE,
           duration |-> from_secs_f64(Len(d.samples),
                                      d.spec.channels * d.spec.sample_rate)]

\* A WAV file as hound writes and reads it.
Wav(spec, samples) ==
  [channels |-> spec.channels, sample_rate |-> spec.sample_rate,
   bits_per_sample |-> spec.bits_per_sample, samples |-> samples]

\* WavReader::duration: the number of samples per channel.
WavDuration(wav) == Len(wav.samples) \div wav.channels

Zeros(n) == [i \in 1..n |-> 0]

(***************************************************************************)
(* The functions of the pipeline.                                          *)
(***************************************************************************)
IsClickName(name) == contains(to_lowercase(name), CLICK)

IsMp3(name) == has_extension(name, MP3_EXT)

\* [ok, click, others]: the click track is the last entry read whose name
\* contains "click"; the others are the .mp3 entries whose name does not.
\* Mutant of find_tracks: without a click track the first entry of the
\* directory is taken for it.
find_tracks_first_entry(dir) ==
  LET clicks == {i \in 1..Len(dir) : IsClickName(dir[i].name)}
      last == CHOOSE i \in clicks : \A j \in clicks : j <= i
      others == SelectSeq(dir, LAMBDA e : ~IsClickName(e.name) /\ IsMp3(e.name))
  IN IF clicks = {}
       THEN IF dir = <<>> THEN [ok |-> FALSE, click |-> <<>>, others |-> <<>>]
            ELSE [ok |-> TRUE, click |-> dir[1].name,
                  others |-> [i \in 1..Len(others) |-> others[i].name]]
     ELSE [ok |-> TRUE, click |-> dir[last].name,
           others |-> [i \in 1..Len(others) |-> others[i].name]]

find_tracks(dir) ==
  LET clicks == {i \in 1..Len(dir) : IsClickName(dir[i].name)}
      last == CHOOSE i \in clicks : \A j \in clicks : j <= i
      others == SelectSeq(dir, LAMBDA e : ~IsClickName(e.name) /\ IsMp3(e.name))
  IN IF clicks = {} THEN [ok |-> FALSE, click |-> <<>>, others |-> <<>>]
     ELSE [ok |-> TRUE, click |-> dir[last].name,
           others |-> [i \in 1..Len(others) |-> others[i].name]]

\* The content of the entry called name.
DataOf(dir, name) == dir[CHOOSE i \in 1..Len(dir) : dir[i].name = name].data

\* [ok, dest, wav]: the decoded samples written as they are.
transcode_to_wav(name, data) ==
  LET d == decode_mp3(data)
  IN IF ~d.ok THEN [ok |-> FALSE, dest |-> <<>>, wav |-> Wav(NoSpec, <<>>)]
     ELSE [ok |-> TRUE, dest |-> with_extension(name, WAV_EXT),
           wav |-> Wav(d.spec, d.samples)]

\* Mutant of padding_samples: the channel count is left out.
padding_frames_only(padding_duration, spec) ==
  secs_times_rate_as_u32(padding_duration, spec.sample_rate)

\* let padding_samples = (padding_duration.as_secs_f64() * spec.sample_rate as f64)
\*                         as u32 * spec.channels as u32;
padding_samples(padding_duration, spec) ==
  secs_times_rate_as_u32(padding_duration, spec.sample_rate) * spec.channels

\* [ok, wav]: silence, then the original samples.
apply_padding(data, padding_duration) ==
  LET d == decode_mp3(data)
  IN IF ~d.ok THEN [ok |-> FALSE, wav |-> Wav(NoSpec, <<>>)]
     ELSE [ok |-> TRUE,
           wav |-> Wav(d.spec,
                       Zeros(padding_samples(padding_duration, d.spec)) \o d.samples)]

\* An i32 cast to i16: the low 16 bits, in two's complement.
as_i16(x) == ((x - I16_MIN) % (I16_MAX - I16_MIN + 1)) + I16_MIN

\* Mutant of mono_sample: each channel is halved before the sum.
mono_sample_halves(left, right) == as_i16(TruncDiv(left, 2) + TruncDiv(right, 2))

\* let mono_sample = ((chunk[0] as i32 + chunk[1] as i32) / 2) as i16;
mono_sample(left, right) == as_i16(TruncDiv(left + right, 2))

\* The name of the mono file made from the stereo file input_name.
mono_output_name(input_name) ==
  normalize_track_name(file_stem(input_name)) \o MONO_TAG \o <<".">> \o WAV_EXT

\* Mutant of stereo_to_mono: only an input of more than two channels is refused.
stereo_to_mono_lenient(input_name, wav, dir) ==
  IF wav.channels > 2 THEN [ok |-> FALSE, path |-> <<>>, dir |-> dir]
  ELSE [ok |-> TRUE, path |-> mono_output_name(input_name),
        dir |-> FsWrite(dir, mono_output_name(input_name),
                        [channels |-> 1, sample_rate |-> wav.sample_rate,
                         bits_per_sample |-> wav.bits_per_sample,
                         samples |-> [k \in 1..(Len(wav.samples) \div 2) |->
                                        TruncDiv(wav.samples[2 * k - 1]
                                                   + wav.samples[2 * k], 2)]])]

\* Mutant of stereo_to_mono: the mono file is written at the default rate.
stereo_to_mono_at_default_rate(input_name, wav, dir) ==
  IF wav.channels # 2 THEN [ok |-> FALSE, path |-> <<>>, dir |-> dir]
  ELSE [ok |-> TRUE, path |-> mono_output_name(input_name),
        dir |-> FsWrite(dir, mono_output_name(input_name),
                        [channels |-> 1, sample_rate |-> DEFAULT_SAMPLE_RATE,
                         bits_per_sample |-> wav.bits_per_sample,
                         samples |-> [k \in 1..(Len(wav.samples) \div 2) |->
                                        mono_sample(wav.samples[2 * k - 1],
                                                    wav.samples[2 * k])]])]

\* [ok, path, dir]: the mono file written into the mono directory dir from
\* the stereo file wav called input_name; nothing is written for an input
\* that has not exactly two channels.
stereo_to_mono(input_name, wav, dir) ==
  IF wav.channels # 2 THEN [ok |-> FALSE, path |-> <<>>, dir |-> dir]
  ELSE LET output_path == mono_output_name(input_name)
           samples == wav.samples
           mono == [k \in 1..(Len(samples) \div 2) |->
                      mono_sample(samples[2 * k - 1], samples[2 * k])]
       IN [ok |-> TRUE, path |-> output_path,
           dir |-> FsWrite(dir, output_path,
                           [channels |-> 1, sample_rate |-> wav.sample_rate,
                            bits_per_sample |-> wav.bits_per_sample,
                            samples |-> mono])]

\* The new name move_wav_files gives a file of the stereo directory.
moved_wav_name(original_name) ==
  IF contains(original_name, MONO_TAG)
    THEN normalize_track_name(original_name) \o MONO_TAG \o <<".">> \o WAV_EXT
    ELSE normalize_track_name(original_name) \o <<".">> \o WAV_EXT

\* The stereo directory after the files are renamed one by one.
RECURSIVE move_wav_files(_, _, _)
move_wav_files(dir, files, i) ==
  IF i > Len(files) THEN dir
  ELSE move_wav_files(FsRename(dir, files[i], moved_wav_name(files[i])), files, i + 1)


(***************************************************************************)
(* generate_reaper_project                                                 *)
(***************************************************************************)
TRACKID_STEM == <<"7","F","E","0","D","0","7","C","-","D","F","A","2","-","4","D","8","5","-","8","A","7","7","-","6","A","B","2","4","1","7","3","D","C","8">>

IGUID_STEM == <<"E","A","E","0","9","8","F","B","-","B","9","B","0","-","4","F","5","7","-","9","D","7","C","-","2","6","5","6","D","9","8","6","1","A","0">>

GUID_STEM == <<"5","E","5","B","6","8","F","0","-","4","7","1","7","-","4","D","8","5","-","8","A","7","7","-","6","A","B","2","4","1","7","3","D","C","8">>

TRACKID_MIDI == <<"7","F","E","0","D","0","7","C","-","D","F","A","2","-","4","D","8","5","-","8","A","7","7","-","6","A","B","2","4","1","7","3","D","C","9">>

IGUID_MIDI == <<"E","A","E","0","9","8","F","B","-","B","9","B","0","-","4","F","5","7","-","9","D","7","C","-","2","6","5","6","D","9","8","6","1","A","1">>

GUID_MIDI == <<"5","E","5","B","6","8","F","0","-","4","7","1","7","-","4","D","8","5","-","8","A","7","7","-","6","A","B","2","4","1","7","3","D","C","9">>

MIDI_NAME == <<"M","I","D","I">>

SONG_TITLE == <<"S","o","n","g">>

\* extract_song_title(song_url): the title of the song being processed, that
\* of the current url of a batch run.
song_title == IF index = 0 THEN SONG_TITLE ELSE urls[index].title

\* The canonical directory of the mono files, below the download directory.
MONO_DIR_ABS == <<"/">> \o song_title \o <<"/","S","T","E","M","S","/">> \o WAV_MONO_DIR \o <<"/">>

DigitChar == <<"0","1","2","3","4","5","6","7","8","9">>

\* Mutant of Decimal: the last digit of n only.
DecimalLastDigit(n) == <<DigitChar[(n % 10) + 1]>>

\* format!("{}", n) of an unsigned integer.
RECURSIVE Decimal(_)
Decimal(n) ==
  IF n < 10 THEN <<DigitChar[n + 1]>>
  ELSE Decimal(n \div 10) \o <<DigitChar[(n % 10) + 1]>>

\* f64 values of the project are kept as fractions [num, den].
FracLT(a, b) == a.num * b.den < b.num * a.den

FracMax(a, b) == IF FracLT(a, b) THEN b ELSE a

\* let pan = if is_click { -1.0 } else { 1.0 };
pan_of(path) ==
  IF contains(to_lowercase(file_stem(path)), CLICK) THEN -1 ELSE 1

\* Mutant of stem_track: the item's file is named after the track, without
\* the extension of the mono file.
stem_track_by_track_name(i, path, wav) ==
  [number |-> i + 1,
   name |-> file_stem(path),
   pan |-> pan_of(path),
   trackid |-> TRACKID_STEM \o Decimal(i),
   source |-> "WAVE",
   position |-> 0,
   length |-> [num |-> WavDuration(wav), den |-> wav.sample_rate],
   loop |-> TRUE,
   iguid |-> IGUID_STEM \o Decimal(i),
   item_name |-> path,
   guid |-> GUID_STEM \o Decimal(i),
   file |-> MONO_DIR_ABS \o file_stem(path),
   events |-> <<>>]

\* The track block written for the i-th mono path (i counted from 0).
stem_track(i, path, wav) ==
  [number |-> i + 1,
   name |-> file_stem(path),
   pan |-> pan_of(path),
   trackid |-> TRACKID_STEM \o Decimal(i),
   source |-> "WAVE",
   position |-> 0,
   length |-> [num |-> WavDuration(wav), den |-> wav.sample_rate],
   loop |-> TRUE,
   iguid |-> IGUID_STEM \o Decimal(i),
   item_name |-> path,
   guid |-> GUID_STEM \o Decimal(i),
   file |-> MONO_DIR_ABS \o path,
   events |-> <<>>]

\* max_duration after the first n mono paths.
RECURSIVE max_duration(_, _, _)
max_duration(paths, dir, n) ==
  IF n = 0 THEN [num |-> 0, den |-> 1]
  ELSE FracMax(max_duration(paths, dir, n - 1),
               [num |-> WavDuration(dir[paths[n]]), den |-> dir[paths[n]].sample_rate])

\* (max_duration * 120.0 * 960.0 / 60.0) as u32
midi_ticks(d) == (d.num * 1920) \div d.den

\* Mutant of midi_track: the end marker takes the number of the last stem track.
midi_track_renumbered(n, max) ==
  [number |-> n,
   name |-> MIDI_NAME,
   pan |-> 0,
   trackid |-> TRACKID_MIDI \o Decimal(n),
   source |-> "MIDI",
   position |-> 0,
   length |-> max,
   loop |-> FALSE,
   iguid |-> IGUID_MIDI \o Decimal(n),
   item_name |-> MIDI_NAME,
   guid |-> GUID_MIDI \o Decimal(n),
   file |-> <<>>,
   events |-> <<0, (max.num * 1920) \div max.den>>]

\* The track block of the end marker, written after n stem tracks.
midi_track(n, max) ==
  [number |-> n + 1,
   name |-> MIDI_NAME,
   pan |-> 0,
   trackid |-> TRACKID_MIDI \o Decimal(n),
   source |-> "MIDI",
   position |-> 0,
   length |-> max,
   loop |-> FALSE,
   iguid |-> IGUID_MIDI \o Decimal(n),
   item_name |-> MIDI_NAME,
   guid |-> GUID_MIDI \o Decimal(n),
   file |-> <<>>,
   events |-> <<0, midi_ticks(max)>>]

\* The track blocks of the project document, in the order written.
generate_reaper_project(paths, dir) ==
  [i \in 1..(Len(paths) + 1) |->
     IF i <= Len(paths) THEN stem_track(i - 1, paths[i], dir[paths[i]])
     ELSE midi_track(Len(paths), max_duration(paths, dir, Len(paths)))]

(***************************************************************************)
(* generate_aaf: the manifest file and the writes made to it.              *)
(***************************************************************************)
TAG_FORM == <<"F","O","R","M">>

TAG_OMFI == <<"O","M","F","I">>

TAG_HEAD == <<"H","E","A","D">>

TAG_MOBJ == <<"M","O","B","J">>

TAG_CLIP == <<"C","L","I","P">>

\* u32::to_be_bytes and u16::to_be_bytes
to_be_bytes32(n) ==
  <<(n \div 16777216) % 256, (n \div 65536) % 256, (n \div 256) % 256, n % 256>>

to_be_bytes16(n) == <<(n \div 256) % 256, n % 256>>

\* The u32 read back from four big-endian bytes of bytes, from offset off.
from_be_bytes32(bytes, off) ==
  bytes[off + 1] * 16777216 + bytes[off + 2] * 65536 + bytes[off + 3] * 256
    + bytes[off + 4]

\* Write::write_all on a file [bytes, pos] opened for writing: the data
\* replaces what is at the position and extends the file past its end.
write_all(f, data) ==
  LET newlen == IF f.pos + Len(data) > Len(f.bytes) THEN f.pos + Len(data)
                                                    ELSE Len(f.bytes)
  IN [bytes |-> [i \in 1..newlen |->
                   IF i > f.pos /\ i <= f.pos + Len(data) THEN data[i - f.pos]
                   ELSE f.bytes[i]],
      pos |-> f.pos + Len(data)]

\* Seek::seek(SeekFrom::Start(p))
seek(f, p) == [f EXCEPT !.pos = p]

PLACEHOLDER == <<0, 0, 0, 0>>

\* Mutant of omf_header: the clock also reaches the version field.
omf_header_stamped(ts) ==
  as_bytes(TAG_FORM) \o PLACEHOLDER \o as_bytes(TAG_OMFI) \o as_bytes(TAG_HEAD)
    \o <<0, 0, 0, HEAD_LENGTH_FIELD>> \o <<2, ts % 256>> \o <<0, 0>> \o to_be_bytes32(ts)
    \o as_bytes(TAG_MOBJ)

\* What lines 543-563 write, for the timestamp ts: the headers up to and
\* including the tag of the MOBJ chunk.
omf_header(ts) ==
  as_bytes(TAG_FORM) \o PLACEHOLDER \o as_bytes(TAG_OMFI) \o as_bytes(TAG_HEAD)
    \o <<0, 0, 0, HEAD_LENGTH_FIELD>> \o <<2, 0>> \o <<0, 0>> \o to_be_bytes32(ts)
    \o as_bytes(TAG_MOBJ)

\* Mutant of clip_file_path: the separators are left as the platform spells them.
clip_file_path_raw(path, sep) == STEMS_PREFIX \o WAV_MONO_DIR \o <<sep>> \o path

\* format!("STEMS/{}", relative_path.to_str().unwrap().replace("\\", "/")),
\* where the path relative to the stems directory is spelled with the
\* separator sep of the platform.
clip_file_path(path, sep) ==
  STEMS_PREFIX \o replace(WAV_MONO_DIR \o <<sep>> \o path, "\\", "/")

\* What lines 579-586 write for one clip, after the tag and the placeholder.
clip_body(file_path, wav) ==
  to_be_bytes32(Len(as_bytes(file_path))) \o as_bytes(file_path)
    \o to_be_bytes32(wav.sample_rate) \o to_be_bytes16(wav.channels)
    \o to_be_bytes32(WavDuration(wav))


(***************************************************************************)
(* The input files the model draws the download directory from.            *)
(***************************************************************************)
Audio(rate, packets) ==
  [probe |-> TRUE, default_track |-> TRUE, sample_rate |-> rate, packets |-> packets]

NotAudio ==
  [probe |-> FALSE, default_track |-> FALSE, sample_rate |-> 0, packets |-> <<>>]

NoDefaultTrack ==
  [probe |-> TRUE, default_track |-> FALSE, sample_rate |-> 0, packets |-> <<>>]

Packet(decoded, channels, frames) ==
  [next |-> "Ok", decoded |-> decoded, channels |-> channels, frames |-> frames]

\* 3.0 s of stereo at 2 Hz.
FileClick ==
  [name |-> <<"S","(","C","l","i","c","k","_","C","u","s","t","o","m","_","B","a","c","k","i","n","g","_","T","r","a","c","k",")",".","m","p","3">>,
   data |-> Audio(2, <<Packet("S16", 2, << <<100, -100>>, <<100, 101>>, <<-1, -2>>,
                                           <<0, 0>>, <<-3, 0>>, <<7, 7>> >>)>>)]

\* 2.0 s of stereo at 2 Hz.
FileBass ==
  [name |-> <<"S","(","B","a","s","s","_","C","u","s","t","o","m","_","B","a","c","k","i","n","g","_","T","r","a","c","k",")",".","m","p","3">>,
   data |-> Audio(2, <<Packet("S16", 2, << <<1, 3>>, <<-1, -2>>, <<2, 2>>, <<-5, 4>> >>)>>)]

\* 3.5 s of stereo at 2 Hz, with one frame the decoder rejects.
FileGuitar ==
  [name |-> <<"S","(","G","u","i","t","a","r","_","C","u","s","t","o","m","_","B","a","c","k","i","n","g","_","T","r","a","c","k",")",".","m","p","3">>,
   data |-> Audio(2, <<Packet("S16", 2, << <<5, 6>>, <<-7, -8>>, <<9, 10>> >>),
                       Packet("DecodeError", 2, <<>>),
                       Packet("S16", 2, << <<11, -12>>, <<13, 14>>, <<-15, 16>>,
                                           <<17, 18>> >>)>>)]

\* A click track by its name only: 4 frames of stereo at 3 Hz.
FileClickDrums ==
  [name |-> <<"c","l","i","c","k","(","D","r","u","m","s","_","C","u","s","t","o","m","_","B","a","c","k","i","n","g","_","T","r","a","c","k",")",".","m","p","3">>,
   data |-> Audio(3, <<Packet("S16", 2, << <<1, 1>>, <<2, 2>>, <<3, 3>>, <<4, 4>> >>)>>)]

\* 2 frames of mono at 3 Hz, under a second name that normalizes to "Bass".
FileBassToo ==
  [name |-> <<"T","(","B","a","s","s","_","C","u","s","t","o","m","_","B","a","c","k","i","n","g","_","T","r","a","c","k",")",".","m","p","3">>,
   data |-> Audio(3, <<Packet("S16", 1, << <<21, 0>>, <<-22, 0>> >>)>>)]

\* 1.0 s of float stereo at 2 Hz, under a name without the marker.
FileKeys ==
  [name |-> <<"K","e","y","s",".","m","p","3">>,
   data |-> Audio(2, <<Packet("F32", 2, << << <<1, 2>>, <<-1, 2>> >>,
                                           << <<1, 1>>, <<-1, 4>> >> >>)>>)]

\* An .mp3 file without a default track.
FileVox ==
  [name |-> <<"V","o","x",".","m","p","3">>, data |-> NoDefaultTrack]

\* A file that is no audio and has "click" in its name.
FileClickTxt ==
  [name |-> <<"c","l","i","c","k",".","t","x","t">>, data |-> NotAudio]

FilePool ==
  {FileClick, FileBass, FileGuitar, FileClickDrums, FileBassToo, FileKeys,
   FileVox, FileClickTxt}

\* The directory listings of at most MaxFiles files of the pool, in any order.
Listings ==
  {s \in UNION {[1..n -> FilePool] : n \in 0..MaxFiles} :
     \A i, j \in 1..Len(s) : s[i] = s[j] => i = j}

\* The entry of the song directory that create_dir_all adds.
SongDirEntry == [name |-> song_title, data |-> NotAudio, complete |-> FALSE]

NoFile == [exists |-> FALSE, bytes |-> <<>>, pos |-> 0]

NoProject == [exists |-> FALSE, tracks |-> <<>>]

\* No page is open.
NoTab ==
  [pc |-> "closed", count_in |-> FALSE, precount |-> FALSE,
   current_count_in_state |-> FALSE, index |-> 0, tracks |-> 0,
   toggle |-> FALSE, downloads |-> <<>>]

NoDocuments == [exists |-> FALSE, project |-> NoProject, bytes |-> <<>>]

NoLocals ==
  [sep |-> "/", mobj_pos |-> 0, clip_len_pos |-> 0, current_pos |-> 0, end_pos |-> 0]

Init ==
  /\ download_dir \in Listings
  /\ keep_mp3s \in BOOLEAN
  /\ pc = "create_dirs"
  /\ click_path = <<>>
  /\ click_duration = ZERO
  /\ click_wav_path = <<>>
  /\ alignment = <<>>
  /\ other_wav_paths = <<>>
  /\ wav_st_dir = EmptyDir
  /\ wav_mono_dir = EmptyDir
  /\ mono_paths = <<>>
  /\ idx = 0
  /\ project = NoProject
  /\ omf = NoFile
  /\ aaf = NoLocals
  /\ mp3_dir = EmptyDir
  /\ urls = <<>>
  /\ index = 0
  /\ sessions = <<>>
  /\ generated = NoDocuments
  /\ skip_count = 0
  /\ run = 1
  /\ tab = NoTab


(***************************************************************************)
(* process_downloads, statement by statement.                              *)
(***************************************************************************)
\* Lines 84-89: the directories are created; the song directory becomes an
\* entry of the download directory.
CreateDirs ==
  /\ pc = "create_dirs"
  /\ download_dir' = IF song_title \in Names(download_dir) THEN download_dir
                     ELSE Append(download_dir, SongDirEntry)
  /\ pc' = "find_tracks"
  /\ UNCHANGED <<keep_mp3s, click_path, click_duration, click_wav_path, alignment,
                 other_wav_paths, wav_st_dir, wav_mono_dir, mono_paths, idx,
                 project, omf, aaf, mp3_dir,
                 urls, index, sessions, generated, skip_count, run, tab>>

\* Mutant of FindTracks: a click track without any other track is an error.
FindTracksNeedsOthers ==
  /\ pc = "find_tracks"
  /\ LET r == find_tracks(download_dir)
     IN IF r.ok /\ r.others # <<>>
          THEN click_path' = r.click /\ pc' = "get_mp3_duration"
          ELSE click_path' = click_path /\ pc' = "failed"
  /\ UNCHANGED <<download_dir, keep_mp3s, click_duration, click_wav_path, alignment,
                 other_wav_paths, wav_st_dir, wav_mono_dir, mono_paths, idx,
                 project, omf, aaf, mp3_dir,
                 urls, index, sessions, generated, skip_count, run, tab>>

\* Line 91.
FindTracks ==
  /\ pc = "find_tracks"
  /\ LET r == find_tracks(download_dir)
     IN IF r.ok THEN click_path' = r.click /\ pc' = "get_mp3_duration"
        ELSE click_path' = click_path /\ pc' = "failed"
  /\ UNCHANGED <<download_dir, keep_mp3s, click_duration, click_wav_path, alignment,
                 other_wav_paths, wav_st_dir, wav_mono_dir, mono_paths, idx,
                 project, omf, aaf, mp3_dir,
                 urls, index, sessions, generated, skip_count, run, tab>>

\* Line 92.
GetClickDuration ==
  /\ pc = "get_mp3_duration"
  /\ LET r == get_mp3_duration(DataOf(download_dir, click_path))
     IN IF r.ok THEN click_duration' = r.duration /\ pc' = "process_click_track"
        ELSE click_duration' = click_duration /\ pc' = "failed"
  /\ UNCHANGED <<download_dir, keep_mp3s, click_path, click_wav_path, alignment,
                 other_wav_paths, wav_st_dir, wav_mono_dir, mono_paths, idx,
                 project, omf, aaf, mp3_dir,
                 urls, index, sessions, generated, skip_count, run, tab>>

\* Line 93.
ProcessClickTrack ==
  /\ pc = "process_click_track"
  /\ LET r == transcode_to_wav(click_path, DataOf(download_dir, click_path))
     IN IF r.ok
          THEN /\ wav_st_dir' = FsWrite(wav_st_dir, r.dest, r.wav)
               /\ click_wav_path' = r.dest
               /\ idx' = 1
               /\ pc' = "process_non_click_tracks"
          ELSE /\ UNCHANGED <<wav_st_dir, click_wav_path, idx>>
               /\ pc' = "failed"
  /\ UNCHANGED <<download_dir, keep_mp3s, click_path, click_duration, alignment,
                 other_wav_paths, wav_mono_dir, mono_paths, project, omf, aaf,
                 mp3_dir,
                 urls, index, sessions, generated, skip_count, run, tab>>

\* Mutant of ProcessNonClickTracks: a Member that fails to decode is passed over.
ProcessNonClickTracksSkipping ==
  /\ pc = "process_non_click_tracks"
  /\ IF idx > Len(download_dir)
       THEN /\ pc' = "convert_to_mono"
            /\ idx' = 0
            /\ UNCHANGED <<wav_st_dir, other_wav_paths, alignment>>
       ELSE LET entry == download_dir[idx]
                output_path == with_extension(entry.name, WAV_EXT)
                track == get_mp3_duration(entry.data)
                padding_duration == saturating_sub(click_duration, track.duration)
                padded == apply_padding(entry.data, padding_duration)
            IN IF IsClickName(entry.name) \/ ~IsMp3(entry.name)
                 THEN /\ idx' = idx + 1
                      /\ pc' = pc
                      /\ UNCHANGED <<wav_st_dir, other_wav_paths, alignment>>
               ELSE IF ~track.ok \/ ~padded.ok
                 THEN /\ idx' = idx + 1
                      /\ pc' = pc
                      /\ UNCHANGED <<wav_st_dir, other_wav_paths, alignment>>
               ELSE /\ wav_st_dir' = FsWrite(wav_st_dir, output_path, padded.wav)
                    /\ other_wav_paths' = Append(other_wav_paths, output_path)
                    /\ alignment' = Append(alignment,
                                           [path |-> entry.name,
                                            track_duration |-> track.duration,
                                            padding_duration |-> padding_duration])
                    /\ idx' = idx + 1
                    /\ pc' = pc
  /\ UNCHANGED <<download_dir, keep_mp3s, click_path, click_duration, click_wav_path,
                 wav_mono_dir, mono_paths, project, omf, aaf, mp3_dir,
                 urls, index, sessions, generated, skip_count, run, tab>>

\* Line 96, lines 302-316: one entry of the directory per step, then the return.
ProcessNonClickTracks ==
  /\ pc = "process_non_click_tracks"
  /\ IF idx > Len(download_dir)
       THEN /\ pc' = "convert_to_mono"
            /\ idx' = 0
            /\ UNCHANGED <<wav_st_dir, other_wav_paths, alignment>>
       ELSE LET entry == download_dir[idx]
                output_path == with_extension(entry.name, WAV_EXT)
                track == get_mp3_duration(entry.data)
                padding_duration == saturating_sub(click_duration, track.duration)
                padded == apply_padding(entry.data, padding_duration)
            IN IF IsClickName(entry.name) \/ ~IsMp3(entry.name)
                 THEN /\ idx' = idx + 1
                      /\ pc' = pc
                      /\ UNCHANGED <<wav_st_dir, other_wav_paths, alignment>>
               ELSE IF ~track.ok \/ ~padded.ok
                 THEN /\ pc' = "failed"
                      /\ UNCHANGED <<idx, wav_st_dir, other_wav_paths, alignment>>
               ELSE /\ wav_st_dir' = FsWrite(wav_st_dir, output_path, padded.wav)
                    /\ other_wav_paths' = Append(other_wav_paths, output_path)
                    /\ alignment' = Append(alignment,
                                           [path |-> entry.name,
                                            track_duration |-> track.duration,
                                            padding_duration |-> padding_duration])
                    /\ idx' = idx + 1
                    /\ pc' = pc
  /\ UNCHANGED <<download_dir, keep_mp3s, click_path, click_duration, click_wav_path,
                 wav_mono_dir, mono_paths, project, omf, aaf, mp3_dir,
                 urls, index, sessions, generated, skip_count, run, tab>>

\* Line 99, lines 349-362: the click track first (idx = 0), then the others.
ConvertToMono ==
  /\ pc = "convert_to_mono"
  /\ LET path == IF idx = 0 THEN click_wav_path ELSE other_wav_paths[idx]
         r == stereo_to_mono(path, wav_st_dir[path], wav_mono_dir)
     IN IF r.ok
          THEN /\ wav_mono_dir' = r.dir
               /\ mono_paths' = Append(mono_paths, r.path)
               /\ idx' = idx + 1
               /\ pc' = IF idx = Len(other_wav_paths) THEN "move_wav_files" ELSE pc
          ELSE /\ UNCHANGED <<wav_mono_dir, mono_paths, idx>>
               /\ pc' = "failed"
  /\ UNCHANGED <<download_dir, keep_mp3s, click_path, click_duration, click_wav_path,
                 alignment, other_wav_paths, wav_st_dir, project, omf, aaf, mp3_dir,
                 urls, index, sessions, generated, skip_count, run, tab>>

\* Lines 102-109: the .wav files of the stereo directory, in the order
\* read_dir yields them, are renamed within it.
MoveWavFiles ==
  /\ pc = "move_wav_files"
  /\ \E all_wav_files \in Orders({n \in DOMAIN wav_st_dir : has_extension(n, WAV_EXT)}) :
       wav_st_dir' = move_wav_files(wav_st_dir, all_wav_files, 1)
  /\ pc' = "generate_reaper_project"
  /\ UNCHANGED <<download_dir, keep_mp3s, click_path, click_duration, click_wav_path,
                 alignment, other_wav_paths, wav_mono_dir, mono_paths, idx, project,
                 omf, aaf, mp3_dir,
                 urls, index, sessions, generated, skip_count, run, tab>>

\* Line 112.
GenerateReaperProject ==
  /\ pc = "generate_reaper_project"
  /\ project' = [exists |-> TRUE,
                 tracks |-> generate_reaper_project(mono_paths, wav_mono_dir)]
  /\ pc' = "generate_aaf"
  /\ UNCHANGED <<download_dir, keep_mp3s, click_path, click_duration, click_wav_path,
                 alignment, other_wav_paths, wav_st_dir, wav_mono_dir, mono_paths,
                 idx, omf, aaf, mp3_dir,
                 urls, index, sessions, generated, skip_count, run, tab>>


(***************************************************************************)
(* generate_aaf (line 115), one step per run of appending writes, per seek *)
(* and per patch.                                                          *)
(***************************************************************************)
\* chrono::Utc::now().timestamp() as u32: the clock values the model draws.
Timestamps == {1700000000, 1700000001}

PLATFORM_SEPARATORS == {"/", "\\"}

\* Lines 536-540: the manifest cannot be opened for writing, and the error
\* is returned from generate_aaf and from process_downloads (line 115).
GenerateAafFails ==
  /\ pc = "generate_aaf"
  /\ pc' = "failed"
  /\ UNCHANGED <<download_dir, keep_mp3s, click_path, click_duration, click_wav_path,
                 alignment, other_wav_paths, wav_st_dir, wav_mono_dir, mono_paths,
                 idx, project, omf, aaf, mp3_dir, urls, index, sessions, generated, skip_count, run, tab>>

\* Lines 535-566: the file is created or truncated and the headers written.
\* The path separator of the platform the program runs on is fixed here, for
\* the whole call.
AafHeader ==
  /\ pc = "generate_aaf"
  /\ \E timestamp \in Timestamps, sep \in PLATFORM_SEPARATORS :
       LET f == write_all([bytes |-> <<>>, pos |-> 0], omf_header(timestamp))
           g == write_all(f, PLACEHOLDER)
       IN /\ omf' = [exists |-> TRUE, bytes |-> g.bytes, pos |-> g.pos]
          /\ aaf' = [aaf EXCEPT !.sep = sep, !.mobj_pos = f.pos]
  /\ idx' = 1
  /\ pc' = IF mono_paths = <<>> THEN "aaf_mobj_seek" ELSE "aaf_clip"
  /\ UNCHANGED <<download_dir, keep_mp3s, click_path, click_duration, click_wav_path,
                 alignment, other_wav_paths, wav_st_dir, wav_mono_dir, mono_paths,
                 project, mp3_dir,
                 urls, index, sessions, generated, skip_count, run, tab>>

\* Lines 569-586: the tag, the placeholder and the payload of one clip.
AafClip ==
  /\ pc = "aaf_clip"
  /\ LET path == mono_paths[idx]
         file_path == clip_file_path(path, aaf.sep)
         f == write_all(omf, as_bytes(TAG_CLIP))
         g == write_all(f, PLACEHOLDER \o clip_body(file_path, wav_mono_dir[path]))
     IN /\ omf' = [omf EXCEPT !.bytes = g.bytes, !.pos = g.pos]
        /\ aaf' = [aaf EXCEPT !.clip_len_pos = f.pos]
  /\ pc' = "aaf_clip_seek"
  /\ UNCHANGED <<download_dir, keep_mp3s, click_path, click_duration, click_wav_path,
                 alignment, other_wav_paths, wav_st_dir, wav_mono_dir, mono_paths,
                 idx, project, mp3_dir,
                 urls, index, sessions, generated, skip_count, run, tab>>

\* Lines 589-590.
AafClipSeek ==
  /\ pc = "aaf_clip_seek"
  /\ aaf' = [aaf EXCEPT !.current_pos = omf.pos]
  /\ omf' = [omf EXCEPT !.pos = seek(omf, aaf.clip_len_pos).pos]
  /\ pc' = "aaf_clip_patch"
  /\ UNCHANGED <<download_dir, keep_mp3s, click_path, click_duration, click_wav_path,
                 alignment, other_wav_paths, wav_st_dir, wav_mono_dir, mono_paths,
                 idx, project, mp3_dir,
                 urls, index, sessions, generated, skip_count, run, tab>>

\* Line 591.
AafClipPatch ==
  /\ pc = "aaf_clip_patch"
  /\ LET g == write_all(omf, to_be_bytes32(aaf.current_pos - aaf.clip_len_pos - 4))
     IN omf' = [omf EXCEPT !.bytes = g.bytes, !.pos = g.pos]
  /\ pc' = "aaf_clip_resume"
  /\ UNCHANGED <<download_dir, keep_mp3s, click_path, click_duration, click_wav_path,
                 alignment, other_wav_paths, wav_st_dir, wav_mono_dir, mono_paths,
                 idx, project, aaf, mp3_dir,
                 urls, index, sessions, generated, skip_count, run, tab>>

\* Mutant of AafClipResume: the loop goes on without the seek forward.
AafClipResumeWithoutSeek ==
  /\ pc = "aaf_clip_resume"
  /\ idx' = idx + 1
  /\ pc' = IF idx = Len(mono_paths) THEN "aaf_mobj_seek" ELSE "aaf_clip"
  /\ UNCHANGED <<download_dir, keep_mp3s, click_path, click_duration, click_wav_path,
                 alignment, other_wav_paths, wav_st_dir, wav_mono_dir, mono_paths,
                 project, omf, aaf, mp3_dir,
                 urls, index, sessions, generated, skip_count, run, tab>>

\* Line 592, and the next turn of the loop or its end.
AafClipResume ==
  /\ pc = "aaf_clip_resume"
  /\ omf' = [omf EXCEPT !.pos = seek(omf, aaf.current_pos).pos]
  /\ idx' = idx + 1
  /\ pc' = IF idx = Len(mono_paths) THEN "aaf_mobj_seek" ELSE "aaf_clip"
  /\ UNCHANGED <<download_dir, keep_mp3s, click_path, click_duration, click_wav_path,
                 alignment, other_wav_paths, wav_st_dir, wav_mono_dir, mono_paths,
                 project, aaf, mp3_dir,
                 urls, index, sessions, generated, skip_count, run, tab>>

\* Lines 596-597.
AafMobjSeek ==
  /\ pc = "aaf_mobj_seek"
  /\ aaf' = [aaf EXCEPT !.end_pos = omf.pos]
  /\ omf' = [omf EXCEPT !.pos = seek(omf, aaf.mobj_pos).pos]
  /\ pc' = "aaf_mobj_patch"
  /\ UNCHANGED <<download_dir, keep_mp3s, click_path, click_duration, click_wav_path,
                 alignment, other_wav_paths, wav_st_dir, wav_mono_dir, mono_paths,
                 idx, project, mp3_dir,
                 urls, index, sessions, generated, skip_count, run, tab>>

\* Line 598.
AafMobjPatch ==
  /\ pc = "aaf_mobj_patch"
  /\ LET g == write_all(omf, to_be_bytes32(aaf.end_pos - aaf.mobj_pos - 4))
     IN omf' = [omf EXCEPT !.bytes = g.bytes, !.pos = g.pos]
  /\ pc' = "aaf_form_seek"
  /\ UNCHANGED <<download_dir, keep_mp3s, click_path, click_duration, click_wav_path,
                 alignment, other_wav_paths, wav_st_dir, wav_mono_dir, mono_paths,
                 idx, project, aaf, mp3_dir,
                 urls, index, sessions, generated, skip_count, run, tab>>

\* Line 601.
AafFormSeek ==
  /\ pc = "aaf_form_seek"
  /\ omf' = [omf EXCEPT !.pos = seek(omf, 4).pos]
  /\ pc' = "aaf_form_patch"
  /\ UNCHANGED <<download_dir, keep_mp3s, click_path, click_duration, click_wav_path,
                 alignment, other_wav_paths, wav_st_dir, wav_mono_dir, mono_paths,
                 idx, project, aaf, mp3_dir,
                 urls, index, sessions, generated, skip_count, run, tab>>

\* Line 602, and the return of generate_aaf.
AafFormPatch ==
  /\ pc = "aaf_form_patch"
  /\ LET g == write_all(omf, to_be_bytes32(aaf.end_pos - 8))
     IN omf' = [omf EXCEPT !.bytes = g.bytes, !.pos = g.pos]
  /\ pc' = "mp3s"
  /\ UNCHANGED <<download_dir, keep_mp3s, click_path, click_duration, click_wav_path,
                 alignment, other_wav_paths, wav_st_dir, wav_mono_dir, mono_paths,
                 idx, project, aaf, mp3_dir,
                 urls, index, sessions, generated, skip_count, run, tab>>

(***************************************************************************)
(* The input files at the end (lines 117-121).                             *)
(***************************************************************************)
\* The MP3 directory after the .mp3 entries from the i-th on are moved in.
RECURSIVE move_mp3s(_, _, _)
move_mp3s(src, dest, i) ==
  IF i > Len(src) THEN dest
  ELSE IF IsMp3(src[i].name)
    THEN move_mp3s(src,
                   FsWrite(dest,
                           normalize_track_name(src[i].name) \o <<".">> \o MP3_EXT,
                           src[i].data),
                   i + 1)
  ELSE move_mp3s(src, dest, i + 1)

\* The download directory without its .mp3 entries.
cleanup_mp3s(dir) == SelectSeq(dir, LAMBDA e : ~IsMp3(e.name))

Mp3s ==
  /\ pc = "mp3s"
  /\ mp3_dir' = IF keep_mp3s THEN move_mp3s(download_dir, mp3_dir, 1) ELSE mp3_dir
  /\ download_dir' = cleanup_mp3s(download_dir)
  /\ pc' = "done"
  /\ UNCHANGED <<keep_mp3s, click_path, click_duration, click_wav_path, alignment,
                 other_wav_paths, wav_st_dir, wav_mono_dir, mono_paths, idx, project,
                 omf, aaf,
                 urls, index, sessions, generated, skip_count, run, tab>>

Next ==
  \/ CreateDirs
  \/ FindTracks
  \/ GetClickDuration
  \/ ProcessClickTrack
  \/ ProcessNonClickTracks
  \/ ConvertToMono
  \/ MoveWavFiles
  \/ GenerateReaperProject
  \/ GenerateAafFails
  \/ AafHeader
  \/ AafClip
  \/ AafClipSeek
  \/ AafClipPatch
  \/ AafClipResume
  \/ AafMobjSeek
  \/ AafMobjPatch
  \/ AafFormSeek
  \/ AafFormPatch
  \/ Mp3s

Spec == Init /\ [][Next]_vars

(***************************************************************************)
(* The two generators called a second time (lines 112 and 115 again) with  *)
(* the arguments of the first call, the mono files being as they were.     *)
(***************************************************************************)
Regenerate ==
  /\ pc = "mp3s"
  /\ ~generated.exists
  /\ generated' = [exists |-> TRUE, project |-> project, bytes |-> omf.bytes]
  /\ pc' = "generate_reaper_project"
  /\ UNCHANGED <<download_dir, keep_mp3s, click_path, click_duration, click_wav_path,
                 alignment, other_wav_paths, wav_st_dir, wav_mono_dir, mono_paths,
                 idx, project, omf, aaf, mp3_dir, urls, index, sessions,
                 skip_count, run, tab>>

NextRegenerate == Next \/ Regenerate

SpecRegenerate == Init /\ [][NextRegenerate]_vars

(***************************************************************************)
(* A batch run: the loop of Download::start_download over the urls         *)
(* (src/commands/download.rs, lines 155-213), every song downloaded into   *)
(* and processed in the one download directory.                            *)
(***************************************************************************)
FileClickT ==
  [name |-> <<"T","(","C","l","i","c","k","_","C","u","s","t","o","m","_","B","a","c","k","i","n","g","_","T","r","a","c","k",")",".","m","p","3">>,
   data |-> Audio(3, <<Packet("S16", 2, <<<<5, 5>>, <<6, 6>>, <<7, 7>>>>)>>)]

FileClickU ==
  [name |-> <<"U","(","C","l","i","c","k","_","C","u","s","t","o","m","_","B","a","c","k","i","n","g","_","T","r","a","c","k",")",".","m","p","3">>,
   data |-> Audio(2, <<Packet("S16", 2, <<<<1, 1>>, <<2, 2>>>>)>>)]

\* A stem of the song U that symphonia finds no default track in.
FileVoxU ==
  [name |-> <<"U","(","V","o","x","_","C","u","s","t","o","m","_","B","a","c","k","i","n","g","_","T","r","a","c","k",")",".","m","p","3">>,
   data |-> NoDefaultTrack]

\* The songs of the account: the title and the tracks of the mixer, in the
\* order download_song downloads them.
SongS == [title |-> <<"S">>, tracks |-> <<FileClick, FileBass, FileGuitar>>]

SongT == [title |-> <<"T">>, tracks |-> <<FileClickT, FileBassToo>>]

SongU == [title |-> <<"U">>, tracks |-> <<FileClickU, FileVoxU>>]

Catalog == {SongS, SongT, SongU}

\* The lists of at most MaxSongs different songs.
UrlLists ==
  {u \in UNION {[1..n -> Catalog] : n \in 1..MaxSongs} :
     \A i, j \in 1..Len(u) : u[i] = u[j] => i = j}

InitBatch ==
  /\ download_dir = <<>>
  /\ keep_mp3s \in BOOLEAN
  /\ pc = "next_track"
  /\ click_path = <<>>
  /\ click_duration = ZERO
  /\ click_wav_path = <<>>
  /\ alignment = <<>>
  /\ other_wav_paths = <<>>
  /\ wav_st_dir = EmptyDir
  /\ wav_mono_dir = EmptyDir
  /\ mono_paths = <<>>
  /\ idx = 0
  /\ project = NoProject
  /\ omf = NoFile
  /\ aaf = NoLocals
  /\ mp3_dir = EmptyDir
  /\ urls \in UrlLists
  /\ skip_count \in 0..MaxSongs
  /\ index = skip_count + 1
  /\ sessions = <<>>
  /\ generated = NoDocuments
  /\ run = 1
  /\ tab = NoTab

\* AudioProcessor::check_folder_exists (processor.rs, lines 67-71).
check_folder_exists(dir, title) == title \in Names(dir)

\* What the loop logs of the song at index: how it ended (ok), or that it
\* was passed over because its folder exists (skipped), and whether the
\* persistent tab answered or was replaced afterwards (recovered).
Session(ok, skipped, recovered) ==
  [title |-> song_title,
   recovered |-> recovered,
   index |-> index,
   ok |-> ok,
   skipped |-> skipped,
   reference |-> click_path,
   members |-> [i \in 1..Len(alignment) |-> alignment[i].path],
   project |-> project.exists]

\* Mutant of NextTrack: the folder of the song is not looked for.
NextTrackWithoutFolderCheck ==
  /\ pc = "next_track"
  /\ IF index > Len(urls)
       THEN pc' = "batch_done" /\ UNCHANGED <<index, sessions>>
       ELSE /\ \E recovered \in BOOLEAN :
                 pc' = IF recovered THEN "download_song" ELSE "batch_failed"
            /\ UNCHANGED <<index, sessions>>
  /\ UNCHANGED <<download_dir, keep_mp3s, click_path, click_duration, click_wav_path,
                 alignment, other_wav_paths, wav_st_dir, wav_mono_dir, mono_paths,
                 idx, project, omf, aaf, mp3_dir, urls, generated, skip_count, run, tab>>

\* download.rs, lines 159-185: the next url of the loop, passed over when
\* the folder of its song exists; before a song is downloaded the
\* persistent tab is tried, and when it is lost and cannot be opened and
\* signed in again (recovered = FALSE) start_download returns the error.
NextTrack ==
  /\ pc = "next_track"
  /\ IF index > Len(urls)
       THEN pc' = "batch_done" /\ UNCHANGED <<index, sessions>>
       ELSE IF check_folder_exists(download_dir, song_title)
         THEN /\ pc' = pc
              /\ index' = index + 1
              /\ sessions' = Append(sessions, Session(FALSE, TRUE, TRUE))
         ELSE /\ \E recovered \in BOOLEAN :
                   pc' = IF recovered THEN "download_song" ELSE "batch_failed"
              /\ UNCHANGED <<index, sessions>>
  /\ UNCHANGED <<download_dir, keep_mp3s, click_path, click_duration, click_wav_path,
                 alignment, other_wav_paths, wav_st_dir, wav_mono_dir, mono_paths,
                 idx, project, omf, aaf, mp3_dir, urls, generated, skip_count, run, tab>>

\* The download directory with the files the browser has saved in it: a
\* directory holds one entry of a name, so that a file saved again takes the
\* place of the one of its name.
Downloaded(dir, files) ==
  [i \in 1..Len(dir) |->
     IF \E j \in 1..Len(files) : files[j].name = dir[i].name
       THEN files[CHOOSE j \in 1..Len(files) : files[j].name = dir[i].name]
       ELSE dir[i]]
    \o SelectSeq(files, LAMBDA f : f.name \notin Names(dir))

\* Mutant of DownloadSong: the error of download_song ends start_download.
DownloadSongOrReturn ==
  /\ pc = "download_song"
  /\ \E k \in 0..Len(urls[index].tracks) :
       /\ download_dir' = Downloaded(download_dir, SubSeq(urls[index].tracks, 1, k))
       /\ IF k = Len(urls[index].tracks)
            THEN /\ pc' = "create_dirs"
                 /\ UNCHANGED <<index, sessions>>
            ELSE /\ \E recovered \in BOOLEAN :
                      /\ pc' = "batch_failed"
                      /\ sessions' = Append(sessions, Session(FALSE, FALSE, recovered))
                 /\ index' = index + 1
  /\ UNCHANGED <<keep_mp3s, click_path, click_duration, click_wav_path, alignment,
                 other_wav_paths, wav_st_dir, wav_mono_dir, mono_paths, idx, project,
                 omf, aaf, mp3_dir, urls, generated, skip_count, run, tab>>

\* download.rs, line 191, and download_song.rs, lines 121-175: the tracks
\* are downloaded one after the other into the download directory; the
\* download of any of them may time out, which ends download_song with the
\* error. The error is logged and the loop goes on to the next url, unless
\* the persistent tab is lost and cannot be replaced (lines 199-209).
DownloadSong ==
  /\ pc = "download_song"
  /\ \E k \in 0..Len(urls[index].tracks) :
       /\ download_dir' = Downloaded(download_dir, SubSeq(urls[index].tracks, 1, k))
       /\ IF k = Len(urls[index].tracks)
            THEN /\ pc' = "create_dirs"
                 /\ UNCHANGED <<index, sessions>>
            ELSE /\ \E recovered \in BOOLEAN :
                      /\ pc' = IF recovered THEN "next_track" ELSE "batch_failed"
                      /\ sessions' = Append(sessions, Session(FALSE, FALSE, recovered))
                 /\ index' = index + 1
  /\ UNCHANGED <<keep_mp3s, click_path, click_duration, click_wav_path, alignment,
                 other_wav_paths, wav_st_dir, wav_mono_dir, mono_paths, idx, project,
                 omf, aaf, mp3_dir, urls, generated, skip_count, run, tab>>

\* The download directory once process_downloads has returned for the song
\* called title: its folder is complete when the call returned Ok.
FolderLeft(dir, title, ok) ==
  [i \in 1..Len(dir) |->
     IF dir[i].name = title
       THEN [dir[i] EXCEPT !.complete = @ \/ ok]
       ELSE dir[i]]

\* download.rs, lines 192-225: process_downloads has returned, with or
\* without an error; the result is logged and the loop goes on, unless the
\* persistent tab is lost and cannot be replaced. The directories of the
\* next song are new ones.
TrackProcessed ==
  /\ pc \in {"done", "failed"}
  /\ index >= 1
  /\ index' = index + 1
  /\ download_dir' = FolderLeft(download_dir, song_title, pc = "done")
  /\ \E recovered \in BOOLEAN :
       /\ pc' = IF recovered THEN "next_track" ELSE "batch_failed"
       /\ sessions' = Append(sessions, Session(pc = "done", FALSE, recovered))
  /\ click_path' = <<>>
  /\ click_duration' = ZERO
  /\ click_wav_path' = <<>>
  /\ alignment' = <<>>
  /\ other_wav_paths' = <<>>
  /\ wav_st_dir' = EmptyDir
  /\ wav_mono_dir' = EmptyDir
  /\ mono_paths' = <<>>
  /\ idx' = 0
  /\ project' = NoProject
  /\ omf' = NoFile
  /\ aaf' = NoLocals
  /\ mp3_dir' = EmptyDir
  /\ UNCHANGED <<keep_mp3s, urls, generated, skip_count, run, tab>>

\* The command is run again with the same arguments on the download
\* directory as the run before left it.
Rerun ==
  /\ pc \in {"batch_done", "batch_failed"}
  /\ run < MaxRuns
  /\ run' = run + 1
  /\ index' = skip_count + 1
  /\ sessions' = <<>>
  /\ pc' = "next_track"
  /\ UNCHANGED <<download_dir, keep_mp3s, click_path, click_duration, click_wav_path,
                 alignment, other_wav_paths, wav_st_dir, wav_mono_dir, mono_paths,
                 idx, project, omf, aaf, mp3_dir, urls, generated,
                 skip_count, tab>>

NextBatch == NextTrack \/ DownloadSong \/ TrackProcessed \/ Rerun \/ Next

SpecBatch == InitBatch /\ [][NextBatch]_vars

(***************************************************************************)
(* stereo_to_mono on its own, applied to any WAV file of a few samples.    *)
(***************************************************************************)
UnitSampleValues == {I16_MIN, -100, 100, 101, I16_MAX}

UnitChannels == {1, 2, 3}

UnitRates == {2, 3}

UNIT_INPUT == <<"S","(","B","a","s","s","_","C","u","s","t","o","m","_","B","a","c","k","i","n","g","_","T","r","a","c","k",")",".","w","a","v">>

\* The sample counts of the WAV files of c channels that hold whole frames,
\* at most 2 * MaxUnitFrames samples.
UnitLengths(c) == {m \in 0..(2 * MaxUnitFrames) : m % c = 0}

InitDownmix ==
  /\ download_dir = <<>>
  /\ keep_mp3s = FALSE
  /\ pc = "stereo_to_mono"
  /\ click_path = <<>>
  /\ click_duration = ZERO
  /\ click_wav_path = <<>>
  /\ alignment = <<>>
  /\ other_wav_paths = <<>>
  /\ \E c \in UnitChannels, r \in UnitRates :
       \E n \in UnitLengths(c) :
         \E smp \in [1..n -> UnitSampleValues] :
           wav_st_dir = FsWrite(EmptyDir, UNIT_INPUT,
                                [channels |-> c, sample_rate |-> r,
                                 bits_per_sample |-> BITS_PER_SAMPLE,
                                 samples |-> smp])
  /\ wav_mono_dir = EmptyDir
  /\ mono_paths = <<>>
  /\ idx = 0
  /\ project = NoProject
  /\ omf = NoFile
  /\ aaf = NoLocals
  /\ mp3_dir = EmptyDir
  /\ urls = <<>>
  /\ index = 0
  /\ sessions = <<>>
  /\ generated = NoDocuments
  /\ skip_count = 0
  /\ run = 1
  /\ tab = NoTab

\* One call of stereo_to_mono (lines 365-395).
StereoToMono ==
  /\ pc = "stereo_to_mono"
  /\ LET r == stereo_to_mono(UNIT_INPUT, wav_st_dir[UNIT_INPUT], wav_mono_dir)
     IN /\ wav_mono_dir' = r.dir
        /\ mono_paths' = IF r.ok THEN <<r.path>> ELSE <<>>
        /\ pc' = IF r.ok THEN "returned_ok" ELSE "returned_err"
  /\ UNCHANGED <<download_dir, keep_mp3s, click_path, click_duration, click_wav_path,
                 alignment, other_wav_paths, wav_st_dir, idx, project, omf, aaf,
                 mp3_dir,
                 urls, index, sessions, generated, skip_count, run, tab>>

NextDownmix == StereoToMono

SpecDownmix == InitDownmix /\ [][NextDownmix]_vars


(***************************************************************************)
(* decode_mp3 on its own: get_mp3_duration and transcode_to_wav applied to *)
(* any file of a few packets.                                              *)
(***************************************************************************)
\* What next_packet and decode can yield for one packet of the file: decoded
\* buffers of either sample format with one or two channels, a buffer of a
\* third sample format, a decode error, another error of decode, and an
\* I/O error of next_packet.
UnitPackets ==
  <<Packet("S16", 2, << <<1, 3>>, <<-1, -2>> >>),
   Packet("S16", 1, << <<21, 0>> >>),
   Packet("F32", 2, << << <<1, 2>>, <<-1, 2>> >> >>),
   Packet("F32", 1, << << <<1, 4>>, <<0, 1>> >>, << <<-1, 1>>, <<0, 1>> >> >>),
   Packet("U8", 2, << <<7, 7>> >>),
   Packet("DecodeError", 2, <<>>),
   Packet("IoError", 2, <<>>),
   [next |-> "IoError", decoded |-> "None", channels |-> 0, frames |-> <<>>]>>

\* What the probe can make of the file: no format, no default track, or a
\* default track with or without a sample rate.
UnitContainers ==
  {NotAudio, NoDefaultTrack} \cup {Audio(r, <<>>) : r \in {0} \cup UnitRates}

UNIT_MP3 == <<"S","(","C","l","i","c","k","_","C","u","s","t","o","m","_","B","a","c","k","i","n","g","_","T","r","a","c","k",")",".","m","p","3">>

InitDecode ==
  /\ \E c \in UnitContainers :
       \E n \in 0..MaxPackets :
         \E p \in [1..n -> 1..Len(UnitPackets)] :
           download_dir = <<[name |-> UNIT_MP3,
                             data |-> [c EXCEPT !.packets =
                                         [k \in 1..n |-> UnitPackets[p[k]]]]]>>
  /\ keep_mp3s = FALSE
  /\ pc = "get_mp3_duration"
  /\ click_path = UNIT_MP3
  /\ click_duration = ZERO
  /\ click_wav_path = <<>>
  /\ alignment = <<>>
  /\ other_wav_paths = <<>>
  /\ wav_st_dir = EmptyDir
  /\ wav_mono_dir = EmptyDir
  /\ mono_paths = <<>>
  /\ idx = 0
  /\ project = NoProject
  /\ omf = NoFile
  /\ aaf = NoLocals
  /\ mp3_dir = EmptyDir
  /\ urls = <<>>
  /\ index = 0
  /\ sessions = <<>>
  /\ generated = NoDocuments
  /\ skip_count = 0
  /\ run = 1
  /\ tab = NoTab

\* get_mp3_duration (lines 216-220), then transcode_to_wav (lines 222-232).
NextDecode == GetClickDuration \/ ProcessClickTrack

SpecDecode == InitDecode /\ [][NextDecode]_vars


(***************************************************************************)
(* Driver::solo_and_download_tracks (src/tasks/download_song.rs, lines     *)
(* 102-193) on its own: the loop over the solo buttons of the mixer page.  *)
(* tab.precount is the checkbox input#precount of the page, which changes  *)
(* when the page is reset and when it is clicked; tab.downloads is what    *)
(* the download button was clicked with.                                   *)
(***************************************************************************)
InitSolo ==
  /\ download_dir = <<>>
  /\ keep_mp3s = FALSE
  /\ pc = "download_song"
  /\ click_path = <<>>
  /\ click_duration = ZERO
  /\ click_wav_path = <<>>
  /\ alignment = <<>>
  /\ other_wav_paths = <<>>
  /\ wav_st_dir = EmptyDir
  /\ wav_mono_dir = EmptyDir
  /\ mono_paths = <<>>
  /\ idx = 0
  /\ project = NoProject
  /\ omf = NoFile
  /\ aaf = NoLocals
  /\ mp3_dir = EmptyDir
  /\ urls = <<>>
  /\ index = 0
  /\ sessions = <<>>
  /\ generated = NoDocuments
  /\ skip_count = 0
  /\ run = 1
  /\ \E count_in \in BOOLEAN, precount \in BOOLEAN, tracks \in 0..MaxTracks :
       tab = [NoTab EXCEPT !.pc = "start", !.count_in = count_in,
                           !.precount = precount, !.tracks = tracks]

NotTab ==
  <<download_dir, keep_mp3s, pc, click_path, click_duration, click_wav_path,
    alignment, other_wav_paths, wav_st_dir, wav_mono_dir, mono_paths, idx,
    project, omf, aaf, mp3_dir, urls, index, sessions, generated, skip_count, run>>

\* Lines 103-114: the buttons are looked up, the mixer is reset, which may
\* change the checkbox, and the state of the checkbox is read; any of the
\* calls may fail.
SoloStart ==
  /\ tab.pc = "start"
  /\ \/ tab' = [tab EXCEPT !.pc = "returned_err"]
     \/ \E precount \in BOOLEAN :
          tab' = [tab EXCEPT !.pc = "solo", !.precount = precount,
                             !.current_count_in_state = precount, !.index = 0]
  /\ UNCHANGED NotTab

\* Mutant of count_in_wanted: the tracks after the first are left as they are.
count_in_wanted_for_all(n, count_in, current) ==
  IF n = 0
    THEN (IF count_in /\ ~current THEN TRUE
          ELSE IF ~count_in /\ current THEN FALSE
          ELSE current)
    ELSE current

\* What lines 131-154 make of the checkbox for the track at index n, the
\* tracked state being current: the state it is to have, or current when it
\* is left alone.
count_in_wanted(n, count_in, current) ==
  IF n = 0
    THEN (IF count_in /\ ~current THEN TRUE
          ELSE IF ~count_in /\ current THEN FALSE
          ELSE current)
    ELSE (IF current THEN FALSE ELSE current)

\* Lines 121-154: the track is soloed; when the checkbox is found it is
\* clicked if its tracked state is not the wanted one, and the loop waits
\* for the page to show the wanted state. The solo click, the wait for it,
\* the click on the checkbox and the wait for its state may fail.
SoloTrack ==
  /\ tab.pc = "solo"
  /\ tab.index < tab.tracks
  /\ \/ tab' = [tab EXCEPT !.pc = "returned_err"]
     \/ tab' = [tab EXCEPT !.pc = "download", !.toggle = FALSE]
     \/ LET wanted == count_in_wanted(tab.index, tab.count_in,
                                      tab.current_count_in_state)
        IN IF wanted = tab.current_count_in_state
             THEN tab' = [tab EXCEPT !.pc = "download", !.toggle = TRUE]
             ELSE \/ tab' = [tab EXCEPT !.pc = "download", !.toggle = TRUE,
                                        !.precount = ~tab.precount,
                                        !.current_count_in_state = wanted]
                  \/ tab' = [tab EXCEPT !.pc = "returned_err",
                                        !.precount = ~tab.precount]
  /\ UNCHANGED NotTab

\* Lines 157-185: the download button is clicked and the loop waits for the
\* file; the wait may time out.
DownloadTrack ==
  /\ tab.pc = "download"
  /\ LET clicked == Append(tab.downloads,
                           [index |-> tab.index, precount |-> tab.precount,
                            tracked |-> tab.current_count_in_state,
                            toggle |-> tab.toggle])
     IN \/ tab' = [tab EXCEPT !.pc = "solo", !.downloads = clicked,
                              !.index = tab.index + 1]
        \/ tab' = [tab EXCEPT !.pc = "returned_err", !.downloads = clicked]
  /\ UNCHANGED NotTab

\* Lines 187-192: every track is downloaded.
SoloDone ==
  /\ tab.pc = "solo"
  /\ tab.index >= tab.tracks
  /\ tab' = [tab EXCEPT !.pc = "returned_ok"]
  /\ UNCHANGED NotTab

NextSolo == SoloStart \/ SoloTrack \/ DownloadTrack \/ SoloDone

SpecSolo == InitSolo /\ [][NextSolo]_vars

(***************************************************************************)
(* Download::start_download from the spawning of the keep-alive thread on  *)
(* (src/commands/download.rs, lines 119-244). tab.pc is the position of    *)
(* start_download, tab.keep_alive that of the thread; tab.left is the      *)
(* number of urls the loop has left, tab.pings the number of pings made    *)
(* and tab.late the number of them made after the flag was stored.         *)
(***************************************************************************)
MaxPings == 3

\* Nothing of process_downloads or of the batch is in progress.
NoProcessing ==
  /\ download_dir = <<>>
  /\ keep_mp3s = FALSE
  /\ pc = "download_song"
  /\ click_path = <<>>
  /\ click_duration = ZERO
  /\ click_wav_path = <<>>
  /\ alignment = <<>>
  /\ other_wav_paths = <<>>
  /\ wav_st_dir = EmptyDir
  /\ wav_mono_dir = EmptyDir
  /\ mono_paths = <<>>
  /\ idx = 0
  /\ project = NoProject
  /\ omf = NoFile
  /\ aaf = NoLocals
  /\ mp3_dir = EmptyDir
  /\ urls = <<>>
  /\ index = 0
  /\ sessions = <<>>
  /\ generated = NoDocuments
  /\ skip_count = 0
  /\ run = 1

\* Lines 120-134: the flag is false and the thread is at the head of its
\* loop; the command is in all mode with some urls, or has one song url
\* (the arguments require one of the two, lines 25-34).
InitKeepAlive ==
  /\ NoProcessing
  /\ \E mode \in {"all", "song"}, left \in 0..MaxSongs :
       /\ (mode # "all" => left = 0)
       /\ tab = [pc |-> "spawned", mode |-> mode, left |-> left, result |-> "none",
                 keep_alive_flag |-> FALSE, keep_alive |-> "check",
                 joined |-> FALSE, pings |-> 0, late |-> 0]

\* Line 124: the thread loads the flag, and leaves its loop when it is set.
KeepAliveCheck ==
  /\ tab.keep_alive = "check"
  /\ tab.result = "none"
  /\ tab.pings < MaxPings \/ tab.keep_alive_flag
  /\ tab' = [tab EXCEPT !.keep_alive = IF tab.keep_alive_flag THEN "finished"
                                       ELSE "sleep"]
  /\ UNCHANGED NotTab

\* Lines 125-132: the thread has slept; it pings the persistent tab, whether
\* the ping succeeds or not, and goes back to the head of its loop.
KeepAlivePing ==
  /\ tab.keep_alive = "sleep"
  /\ tab.result = "none"
  /\ tab' = [tab EXCEPT !.keep_alive = "check", !.pings = tab.pings + 1,
                        !.late = tab.late + (IF tab.keep_alive_flag THEN 1 ELSE 0)]
  /\ UNCHANGED NotTab

\* Lines 136-240, all mode: the track list is read or collected and written
\* (lines 139-152) and the loop takes the next url; the ? of lines 141-149,
\* 168, 182-184, 207-209 and 220-222 return the error from start_download.
StartDownloadAll ==
  /\ tab.pc = "spawned"
  /\ tab.mode = "all"
  /\ \/ tab' = [tab EXCEPT !.pc = "returned", !.result = "err"]
     \/ /\ tab.left > 0
        /\ tab' = [tab EXCEPT !.left = tab.left - 1]
     \/ /\ tab.left = 0
        /\ tab' = [tab EXCEPT !.pc = "signal"]
  /\ UNCHANGED NotTab

\* Lines 226-240, one song url: start_download returns Ok when the folder of
\* the song exists (line 230) and the error of check_folder_exists, of
\* download_song or of process_downloads (lines 228, 238, 239); otherwise
\* it goes on to line 243.
StartDownloadSong ==
  /\ tab.pc = "spawned"
  /\ tab.mode = "song"
  /\ \/ \E result \in {"folder_exists", "err"} :
          tab' = [tab EXCEPT !.pc = "returned", !.result = result]
     \/ tab' = [tab EXCEPT !.pc = "signal"]
  /\ UNCHANGED NotTab

\* Line 243: keep_alive_flag.store(true).
SignalKeepAlive ==
  /\ tab.pc = "signal"
  /\ tab' = [tab EXCEPT !.pc = "join", !.keep_alive_flag = TRUE]
  /\ UNCHANGED NotTab

\* Lines 244 and 257: join returns once the thread has finished, and
\* start_download returns Ok.
JoinKeepAlive ==
  /\ tab.pc = "join"
  /\ tab.keep_alive = "finished"
  /\ tab' = [tab EXCEPT !.pc = "returned", !.result = "ok", !.joined = TRUE]
  /\ UNCHANGED NotTab

NextKeepAlive ==
  \/ KeepAliveCheck
  \/ KeepAlivePing
  \/ StartDownloadAll
  \/ StartDownloadSong
  \/ SignalKeepAlive
  \/ JoinKeepAlive

SpecKeepAlive == InitKeepAlive /\ [][NextKeepAlive]_vars

(***************************************************************************)
(* Driver::download_song (src/tasks/download_song.rs, lines 38-81) with    *)
(* adjust_pitch (lines 344-412). tab.open tells whether the temporary tab  *)
(* is open; has_mixer, has_download_button and addtocart are what the page *)
(* shows; tab.pitch is the label span.pitch__value; pitch_clicks,          *)
(* solo_clicks and download_clicks count the clicks made on the page.      *)
(***************************************************************************)
ITERATIONS_ALLOWED == 10

\* The page is any page, the label showing some pitch, and --transpose has
\* a value of the range -4..=4 the arguments allow (download.rs, line 51).
InitSong ==
  /\ NoProcessing
  /\ \E desired \in {-4, -1, 0, 4}, pitch \in {-7, -4, 0, 3, 7},
        has_mixer \in BOOLEAN, has_download_button \in BOOLEAN,
        addtocart \in BOOLEAN, tracks \in 1..MaxTracks :
       tab = [pc |-> "new_tab", open |-> FALSE, result |-> "none",
              has_mixer |-> has_mixer,
              has_download_button |-> has_download_button,
              addtocart |-> addtocart /\ has_download_button,
              desired |-> desired, pitch |-> pitch, first_pitch |-> pitch,
              button |-> 0, iterations_allowed |-> 0, pitch_clicks |-> 0,
              reloads |-> 0, tracks |-> tracks, solo_clicks |-> 0,
              download_clicks |-> 0]

\* Lines 40-49: the tab is created and the url loaded; new_tab fails before
\* there is a tab, the navigation after.
OpenTab ==
  /\ tab.pc = "new_tab"
  /\ \/ tab' = [tab EXCEPT !.pc = "returned", !.result = "BrowserError"]
     \/ tab' = [tab EXCEPT !.pc = "returned", !.result = "BrowserError",
                           !.open = TRUE]
     \/ tab' = [tab EXCEPT !.pc = "validate", !.open = TRUE]
  /\ UNCHANGED NotTab

\* Lines 332-336.
is_a_song_page(page) == page.has_mixer /\ page.has_download_button

\* Mutant of is_downloadable: every song page is taken as purchased.
is_downloadable_always(page) == TRUE

\* Lines 338-342: the download button has not the class addtocart.
is_downloadable(page) == ~page.addtocart

\* Lines 51-59.
ValidatePage ==
  /\ tab.pc = "validate"
  /\ tab' = IF ~is_a_song_page(tab)
              THEN [tab EXCEPT !.pc = "returned", !.result = "NotASongPage"]
            ELSE IF ~is_downloadable(tab)
              THEN [tab EXCEPT !.pc = "returned", !.result = "NotPurchased"]
            ELSE [tab EXCEPT !.pc = "adjust_pitch"]
  /\ UNCHANGED NotTab

\* Mutant of AdjustPitchStart: the pitch is taken as set already.
AdjustPitchStartNoLoop ==
  /\ tab.pc = "adjust_pitch"
  /\ \/ tab' = [tab EXCEPT !.pc = "returned", !.result = "PitchError"]
     \/ tab' = [tab EXCEPT !.pc = "tracks"]
  /\ UNCHANGED NotTab

\* Lines 347-376: the label is read and parsed, which may fail; with a
\* difference of zero adjust_pitch returns Ok, otherwise the button is
\* chosen by the sign of the difference (1: key up, -1: key down).
AdjustPitchStart ==
  /\ tab.pc = "adjust_pitch"
  /\ \/ tab' = [tab EXCEPT !.pc = "returned", !.result = "PitchError"]
     \/ LET diff == tab.desired - tab.pitch
        IN tab' = IF diff = 0
                    THEN [tab EXCEPT !.pc = "tracks"]
                    ELSE [tab EXCEPT !.pc = "pitch_loop",
                                     !.button = IF diff > 0 THEN 1 ELSE -1,
                                     !.iterations_allowed = ITERATIONS_ALLOWED]
  /\ UNCHANGED NotTab

\* Lines 377-411, one turn of the loop: the assertion, the click, after
\* which the label shows the pitch one step further or still the old one,
\* and the reading of the label, which may fail. When the label shows the
\* desired pitch the loop ends, the link that reloads the tracks is clicked,
\* which may fail, and adjust_pitch returns Ok.
PitchClick ==
  /\ tab.pc = "pitch_loop"
  /\ IF tab.iterations_allowed <= 0
       THEN tab' = [tab EXCEPT !.pc = "panicked", !.result = "panic"]
       ELSE \E shown \in {tab.pitch, tab.pitch + tab.button} :
              LET clicked == [tab EXCEPT
                                !.iterations_allowed = tab.iterations_allowed - 1,
                                !.pitch_clicks = tab.pitch_clicks + 1,
                                !.pitch = shown]
              IN \/ tab' = [clicked EXCEPT !.pc = "returned", !.result = "PitchError"]
                 \/ /\ shown # tab.desired
                    /\ tab' = clicked
                 \/ /\ shown = tab.desired
                    /\ tab' = [clicked EXCEPT !.pc = "tracks", !.reloads = 1]
  /\ UNCHANGED NotTab

\* Lines 64-68: the names are read and the tracks soloed and downloaded one
\* after the other; a failure on the way returns the error.
DownloadTracks ==
  /\ tab.pc = "tracks"
  /\ \/ tab' = [tab EXCEPT !.pc = "returned", !.result = "BrowserError"]
     \/ \E k \in 1..tab.tracks :
          tab' = [tab EXCEPT !.pc = "returned", !.result = "DownloadError",
                             !.solo_clicks = k, !.download_clicks = k]
     \/ tab' = [tab EXCEPT !.pc = "close", !.solo_clicks = tab.tracks,
                           !.download_clicks = tab.tracks]
  /\ UNCHANGED NotTab

\* Lines 70-80: the tab is closed, which may fail, and the names returned.
CloseTab ==
  /\ tab.pc = "close"
  /\ \/ tab' = [tab EXCEPT !.pc = "returned", !.result = "BrowserError"]
     \/ tab' = [tab EXCEPT !.pc = "returned", !.result = "Ok", !.open = FALSE]
  /\ UNCHANGED NotTab

NextSong ==
  \/ OpenTab
  \/ ValidatePage
  \/ AdjustPitchStart
  \/ PitchClick
  \/ DownloadTracks
  \/ CloseTab

SpecSong == InitSong /\ [][NextSong]_vars

\* adjust_pitch is not kept from running: it takes its next step.
SpecSongFair == SpecSong /\ WF_vars(NextSong)

(***************************************************************************)
(* The click on the download button and Driver::wait_for_download          *)
(* (src/tasks/download_song.rs, lines 158-165 and 236-298), with the       *)
(* browser writing the file meanwhile. tab.files is the download           *)
(* directory, a function from the names in it to the sizes of the files,   *)
(* and tab.dir_exists tells whether there is such a directory; tab.browser *)
(* is the state of the download and tab.writes_to the name it is written   *)
(* under; tab.elapsed counts the turns of the loop, of which the timeout   *)
(* allows MaxPolls, and tab.complete_at is the turn the download was       *)
(* complete in.                                                            *)
(***************************************************************************)
MaxPolls == 3

MaxSize == 2

\* Line 263: the extensions of a download in progress.
TEMP_EXTENSIONS == {<<"c","r","d","o","w","n","l","o","a","d">>, <<"p","a","r","t">>}

\* The file names of the scene: a file that was there before, the file the
\* track is saved as, and the names a browser may write it under meanwhile.
DownloadNames ==
  [old |-> <<"o",".","m","p","3">>,
   new |-> <<"n",".","m","p","3">>,
   crdownload |-> <<"n",".","m","p","3",".","c","r","d","o","w","n","l","o","a","d">>,
   part |-> <<"n",".","m","p","3",".","p","a","r","t">>]

\* The function f without the name n, and with the name n mapped to v.
Without(f, n) == [m \in DOMAIN f \ {n} |-> f[m]]

With(f, n, v) == [m \in DOMAIN f \cup {n} |-> IF m = n THEN v ELSE f[m]]

InitWait ==
  /\ NoProcessing
  /\ \E dir_exists \in BOOLEAN, old \in BOOLEAN :
       tab = [pc |-> "click", dir_exists |-> dir_exists,
              files |-> IF dir_exists /\ old
                          THEN With(<<>>, DownloadNames.old, 1) ELSE <<>>,
              browser |-> "idle", writes_to |-> <<>>, initial_files |-> {},
              elapsed |-> 0, candidate |-> <<>>, size1 |-> 0, size2 |-> 0,
              result |-> "none", filename |-> <<>>, complete_at |-> -1]

\* Lines 160-161: the download button is clicked; the browser begins the
\* download on its own time.
ClickDownload ==
  /\ tab.pc = "click"
  /\ tab' = [tab EXCEPT !.pc = "snapshot", !.browser = "requested"]
  /\ UNCHANGED NotTab

\* The browser, while wait_for_download runs or is about to: it creates the
\* file under the final name or a temporary one (and the directory, if
\* there is none), writes to it, gives the finished file its final name, or
\* gives the download up and removes the file.
BrowserStep ==
  /\ tab.pc # "returned"
  /\ \/ /\ tab.browser = "requested"
        /\ \E name \in {DownloadNames.new, DownloadNames.crdownload, DownloadNames.part} :
             tab' = [tab EXCEPT !.browser = "writing", !.writes_to = name,
                                !.dir_exists = TRUE,
                                !.files = With(tab.files, name, 0)]
     \/ /\ tab.browser = "writing"
        /\ tab.files[tab.writes_to] < MaxSize
        /\ tab' = [tab EXCEPT !.files = With(tab.files, tab.writes_to,
                                             tab.files[tab.writes_to] + 1)]
     \/ /\ tab.browser = "writing"
        /\ tab.files[tab.writes_to] > 0
        /\ tab' = [tab EXCEPT !.browser = "complete",
                              !.complete_at = tab.elapsed,
                              !.files = With(Without(tab.files, tab.writes_to),
                                             DownloadNames.new,
                                             tab.files[tab.writes_to])]
     \/ /\ tab.browser = "writing"
        /\ tab' = [tab EXCEPT !.browser = "aborted",
                              !.files = Without(tab.files, tab.writes_to)]
  /\ UNCHANGED NotTab

\* Lines 237-244: the names in the directory are read; read_dir fails when
\* there is no directory, and the ? returns the error.
TakeSnapshot ==
  /\ tab.pc = "snapshot"
  /\ tab' = IF ~tab.dir_exists
              THEN [tab EXCEPT !.pc = "returned", !.result = "IoError"]
              ELSE [tab EXCEPT !.pc = "loop", !.initial_files = DOMAIN tab.files,
                               !.elapsed = 0]
  /\ UNCHANGED NotTab

\* Lines 248-268 and 285-286, one turn of the loop: the timeout is looked
\* at, the directory read, and the size of a new file whose extension is not
\* that of a download in progress is read for the first time; without such
\* a file the loop sleeps.
Poll ==
  /\ tab.pc = "loop"
  /\ IF tab.elapsed >= MaxPolls
       THEN tab' = [tab EXCEPT !.pc = "returned", !.result = "DownloadTimeout"]
       ELSE LET final == {n \in DOMAIN tab.files \ tab.initial_files :
                            extension(n) \notin TEMP_EXTENSIONS}
            IN IF final = {}
                 THEN tab' = [tab EXCEPT !.elapsed = tab.elapsed + 1]
                 ELSE \E n \in final :
                        tab' = [tab EXCEPT !.pc = "is_file_stable", !.candidate = n,
                                           !.size1 = tab.files[n]]
  /\ UNCHANGED NotTab

\* Lines 288-297 and 271-278: after the sleep the size is read again, which
\* fails when the file is gone; the name is returned when the two sizes are
\* equal and not zero, otherwise the loop goes on.
IsFileStable ==
  /\ tab.pc = "is_file_stable"
  /\ tab' = IF tab.candidate \notin DOMAIN tab.files
              THEN [tab EXCEPT !.pc = "returned", !.result = "IoError"]
            ELSE IF tab.size1 = tab.files[tab.candidate] /\ tab.size1 > 0
              THEN [tab EXCEPT !.pc = "returned", !.result = "Ok",
                               !.size2 = tab.files[tab.candidate],
                               !.filename = tab.candidate]
            ELSE [tab EXCEPT !.pc = "loop", !.size2 = tab.files[tab.candidate],
                             !.elapsed = tab.elapsed + 1]
  /\ UNCHANGED NotTab

NextWait == ClickDownload \/ BrowserStep \/ TakeSnapshot \/ Poll \/ IsFileStable

SpecWait == InitWait /\ [][NextWait]_vars

(***************************************************************************)
(* Driver::sign_in and Driver::validate_session (src/tasks/sign_in.rs).    *)
(* tab.page is what the tab shows: the kind of its url, whether one of the *)
(* logged-in indicators and whether the login form is found on it, and     *)
(* whether the account page would open from it without a redirect to the   *)
(* login page. tab.keystore is the session cookie of the keystore: none,   *)
(* one of an earlier run ("old") or the one of this login ("new").         *)
(***************************************************************************)
Pages ==
  [url : {"home", "login", "account", "download"},
   indicator : BOOLEAN, frm_login : BOOLEAN, account_open : BOOLEAN]

\* Lines 9-58: the answer of validate_session on a page.
validate_session(page) ==
  IF page.url = "login" THEN FALSE
  ELSE IF page.url \in {"account", "download"} THEN TRUE
  ELSE IF page.indicator THEN TRUE
  ELSE IF page.frm_login THEN FALSE
  ELSE page.account_open

\* Lines 47-54: the page the tab is left on by validate_session, which
\* navigates to the account page when nothing else has decided.
validated_page(page) ==
  IF page.url = "home" /\ ~page.indicator /\ ~page.frm_login
    THEN [page EXCEPT !.url = IF page.account_open THEN "account" ELSE "login"]
    ELSE page

InitSignIn ==
  /\ NoProcessing
  /\ \E cookie \in BOOLEAN :
       tab = [pc |-> "new_tab", keystore |-> IF cookie THEN "old" ELSE "none",
              page |-> [url |-> "home", indicator |-> FALSE, frm_login |-> FALSE,
                        account_open |-> FALSE],
              path |-> "none", result |-> "none"]

\* Lines 61-70: a new tab is opened on the home page; each call may fail.
NavigateHome ==
  /\ tab.pc = "new_tab"
  /\ \/ tab' = [tab EXCEPT !.pc = "returned", !.result = "Error"]
     \/ \E page \in Pages :
          tab' = [tab EXCEPT !.pc = "cookie", !.page = page]
  /\ UNCHANGED NotTab

\* Lines 73-86: with a cookie in the keystore, the cookie is set, the page
\* reloaded and the session validated; Ok is returned when it is valid.
RestoreCookie ==
  /\ tab.pc = "cookie"
  /\ IF tab.keystore = "none"
       THEN tab' = [tab EXCEPT !.pc = "login_page"]
       ELSE \/ tab' = [tab EXCEPT !.pc = "returned", !.result = "Error"]
            \/ \E page \in Pages :
                 tab' = IF validate_session(page)
                          THEN [tab EXCEPT !.pc = "returned", !.result = "Ok",
                                           !.path = "restored",
                                           !.page = validated_page(page)]
                          ELSE [tab EXCEPT !.pc = "login_page",
                                           !.page = validated_page(page)]
  /\ UNCHANGED NotTab

\* Lines 89-102: the login page is opened and the session validated; Ok is
\* returned when the site shows a session already.
NavigateLogin ==
  /\ tab.pc = "login_page"
  /\ \/ tab' = [tab EXCEPT !.pc = "returned", !.result = "Error"]
     \/ \E page \in Pages :
          tab' = IF validate_session(page)
                   THEN [tab EXCEPT !.pc = "returned", !.result = "Ok",
                                    !.path = "already",
                                    !.page = validated_page(page)]
                   ELSE [tab EXCEPT !.pc = "form", !.page = validated_page(page)]
  /\ UNCHANGED NotTab

\* Lines 104-132: the form is filled and sent and the navigation waited
\* for; a field or the button may be missing and a call may fail.
FillForm ==
  /\ tab.pc = "form"
  /\ \/ tab' = [tab EXCEPT !.pc = "returned", !.result = "Error"]
     \/ /\ tab.page.frm_login
        /\ \E page \in Pages :
             tab' = [tab EXCEPT !.pc = "verify", !.page = page]
  /\ UNCHANGED NotTab

\* The same without the check of the session.
VerifyLoginUnchecked ==
  /\ tab.pc = "verify"
  /\ tab' = [tab EXCEPT !.pc = "save", !.path = "fresh"]
  /\ UNCHANGED NotTab

\* Lines 134-137: the session is validated after the login; the error is
\* returned when it is not valid.
VerifyLogin ==
  /\ tab.pc = "verify"
  /\ tab' = IF ~validate_session(tab.page)
              THEN [tab EXCEPT !.pc = "returned", !.result = "LoginFailed",
                               !.path = "fresh",
                               !.page = validated_page(tab.page)]
              ELSE [tab EXCEPT !.pc = "save", !.path = "fresh",
                               !.page = validated_page(tab.page)]
  /\ UNCHANGED NotTab

\* Lines 139-150: the session cookie, when the tab has one and the keystore
\* takes it, is saved; Ok is returned either way.
SaveCookie ==
  /\ tab.pc = "save"
  /\ \E saved \in BOOLEAN :
       tab' = [tab EXCEPT !.pc = "returned", !.result = "Ok",
                          !.keystore = IF saved THEN "new" ELSE tab.keystore]
  /\ UNCHANGED NotTab

NextSignIn ==
  NavigateHome \/ RestoreCookie \/ NavigateLogin \/ FillForm \/ VerifyLogin \/ SaveCookie

SpecSignIn == InitSignIn /\ [][NextSignIn]_vars

(***************************************************************************)
(* AudioProcessor::generate_reaper_project (src/audio/processor.rs, lines  *)
(* 398-532) on a directory of many mono files: tab.mono_paths are their    *)
(* names in the order converted, tab.wav_mono_dir the files, tab.tracks    *)
(* the track blocks of the document written.                               *)
(***************************************************************************)
MaxAssets == 11

\* The name of the i-th mono file.
AssetName(i) == <<"T">> \o Decimal(i) \o MONO_TAG \o <<".">> \o WAV_EXT

\* A directory of n mono files of one frame each, but for the file long
\* (if there is one), which has two.
InitProject ==
  /\ NoProcessing
  /\ \E n \in 0..MaxAssets :
       \E long \in 0..n :
         tab = [pc |-> "generate_reaper_project",
                mono_paths |-> [i \in 1..n |-> AssetName(i)],
                wav_mono_dir |->
                  [name \in {AssetName(i) : i \in 1..n} |->
                     [channels |-> 1, sample_rate |-> 2, bits_per_sample |-> 16,
                      samples |-> IF name = AssetName(long) THEN <<0, 0>> ELSE <<0>>]],
                tracks |-> <<>>]

\* Lines 398-532: the document is written, a track block per mono path and
\* the block of the end marker.
WriteProject ==
  /\ tab.pc = "generate_reaper_project"
  /\ tab' = [tab EXCEPT !.pc = "written",
                        !.tracks = generate_reaper_project(tab.mono_paths,
                                                           tab.wav_mono_dir)]
  /\ UNCHANGED NotTab

NextProject == WriteProject

SpecProject == InitProject /\ [][NextProject]_vars


(***************************************************************************)
(* The claims.                                                             *)
(***************************************************************************)
Duration(secs, nanos) == [secs |-> secs, nanos |-> nanos]

DurationAdd(a, b) ==
  IF a.nanos + b.nanos >= NANOS_PER_SEC
    THEN [secs |-> a.secs + b.secs + 1, nanos |-> a.nanos + b.nanos - NANOS_PER_SEC]
    ELSE [secs |-> a.secs + b.secs, nanos |-> a.nanos + b.nanos]

\* The statements at which every stereo file written so far still has the
\* name it was written under, and every input file is still in place.
StereoStage == {"process_non_click_tracks", "convert_to_mono", "move_wav_files"}

\* After the padding stage: process_non_click_tracks has returned.
AfterPadding == {"convert_to_mono", "move_wav_files"}

\* The decoded samples of the input file called name.
Decoded(name) == decode_mp3(DataOf(download_dir, name))

\* The stereo file written for the i-th Member.
MemberAsset(i) == wav_st_dir[other_wav_paths[i]]

Frames(samples) == Len(samples) \div 2

MaxOf(a, b) == IF a < b THEN b ELSE a

\* C1: the padding of every Member is max(0, referenceDuration -
\* memberDuration): never negative, the difference when the Member is shorter
\* (10.0 s against 7.5 s gives 2.5 s), zero when it is as long or longer
\* (5 s against 6 s gives 0), and then the stereo file holds all the samples
\* of the Member.
C1_PaddingIsClampedDifference ==
  /\ saturating_sub(Duration(10, 0), Duration(7, 500000000)) = Duration(2, 500000000)
  /\ saturating_sub(Duration(5, 0), Duration(6, 0)) = ZERO
  /\ \A i \in 1..Len(alignment) :
       LET a == alignment[i]
       IN /\ a.padding_duration.secs >= 0
          /\ a.padding_duration.nanos \in 0..(NANOS_PER_SEC - 1)
          /\ IF DurationLE(click_duration, a.track_duration)
               THEN a.padding_duration = ZERO
               ELSE DurationAdd(a.track_duration, a.padding_duration) = click_duration
          /\ (DurationLE(click_duration, a.track_duration) /\ pc \in StereoStage)
               => MemberAsset(i).samples = Decoded(a.path).samples

\* A shorter Member got 1.0 s of padding and a longer one none, and both
\* stereo files are written.
C1_Witness ==
  /\ pc = "convert_to_mono"
  /\ \E i, j \in 1..Len(alignment) :
       /\ alignment[i].padding_duration = Duration(1, 0)
       /\ ~DurationLE(alignment[j].track_duration, click_duration)
       /\ alignment[j].padding_duration = ZERO
       /\ MemberAsset(j).samples = Decoded(alignment[j].path).samples

C3_MemberReachesMaxFrames ==
  pc \in AfterPadding =>
    /\ wav_st_dir[click_wav_path].samples = Decoded(click_path).samples
    /\ \A i \in 1..Len(alignment) :
         LET d == Decoded(alignment[i].path)
         IN d.spec.sample_rate = Decoded(click_path).spec.sample_rate
              => Frames(MemberAsset(i).samples)
                   = MaxOf(Frames(Decoded(click_path).samples), Frames(d.samples))

\* The stereo input of the call of stereo_to_mono, and the mono file it wrote.
UnitIn == wav_st_dir[UNIT_INPUT]

UnitOut == wav_mono_dir[mono_paths[1]]

\* C4 as stated: one mono sample per (left, right) pair, each the floor of
\* (left + right) / 2, pairs of a negative odd sum included.
C4_MonoIsFloorOfAverage ==
  pc = "returned_ok" =>
    /\ Len(UnitOut.samples) = Len(UnitIn.samples) \div 2
    /\ \A k \in 1..Len(UnitOut.samples) :
         UnitOut.samples[k] = (UnitIn.samples[2 * k - 1] + UnitIn.samples[2 * k]) \div 2

\* C4 as amended: one mono sample per (left, right) pair, each (left + right)
\* / 2 rounded toward zero, which is the floor when the sum is even or not
\* negative and one more than the floor when the sum is negative and odd;
\* (100, -100) gives 0 and (100, 101) gives 100.
C4_MonoIsAverageTowardZero ==
  pc = "returned_ok" =>
    /\ UnitOut.channels = 1
    /\ Len(UnitOut.samples) = Len(UnitIn.samples) \div 2
    /\ \A k \in 1..Len(UnitOut.samples) :
         LET left == UnitIn.samples[2 * k - 1]
             right == UnitIn.samples[2 * k]
             sum == left + right
             m == UnitOut.samples[k]
         IN /\ sum % 2 = 0 => 2 * m = sum
            /\ (sum % 2 = 1 /\ sum > 0) => 2 * m = sum - 1
            /\ (sum % 2 = 1 /\ sum < 0) => 2 * m = sum + 1
            /\ (sum % 2 = 0 \/ sum >= 0) => m = sum \div 2
            /\ (sum % 2 = 1 /\ sum < 0) => m = (sum \div 2) + 1
            /\ (left = 100 /\ right = -100) => m = 0
            /\ (left = 100 /\ right = 101) => m = 100

\* A stereo file with a pair of a negative odd sum and the pair (100, 101) was
\* mixed down.
C4_Witness ==
  /\ pc = "returned_ok"
  /\ Len(UnitOut.samples) = 2
  /\ UnitIn.samples[1] + UnitIn.samples[2] < 0
  /\ (UnitIn.samples[1] + UnitIn.samples[2]) % 2 = 1
  /\ UnitIn.samples[3] = 100
  /\ UnitIn.samples[4] = 101
  /\ UnitOut.samples[2] = 100

\* C5: for an input that has not exactly two channels stereo_to_mono returns
\* the error and creates no mono file.
C5_NotStereoFailsWithoutOutput ==
  (pc \in {"returned_ok", "returned_err"} /\ UnitIn.channels # 2) =>
    /\ pc = "returned_err"
    /\ wav_mono_dir = EmptyDir
    /\ mono_paths = <<>>

\* A mono input with samples was refused.
C5_Witness ==
  /\ pc = "returned_err"
  /\ UnitIn.channels = 1
  /\ Len(UnitIn.samples) = 2
  /\ wav_mono_dir = EmptyDir

(***************************************************************************)
(* Reading a manifest back, chunk by chunk, as its length fields direct.   *)
(***************************************************************************)
TagAt(bytes, off, tag) ==
  /\ off >= 0
  /\ off + 4 <= Len(bytes)
  /\ SubSeq(bytes, off + 1, off + 4) = as_bytes(tag)

\* The offset of the payload of the header chunk: behind the tag, the length
\* and the type of the outer container and the tag and the length of the header.
HeadPayloadOff == Len(TAG_FORM) + 4 + Len(TAG_OMFI) + Len(TAG_HEAD) + 4

\* The offset of the tag of the list chunk: the first one behind the header.
MobjOff(bytes) ==
  CHOOSE off \in HeadPayloadOff..Len(bytes) :
    /\ TagAt(bytes, off, TAG_MOBJ)
    /\ \A o \in HeadPayloadOff..(off - 1) : ~TagAt(bytes, o, TAG_MOBJ)

\* The clip chunks from offset off on, each taken as long as its length
\* field says: the offset of the tag and the length read.
RECURSIVE ClipsFrom(_, _)
ClipsFrom(bytes, off) ==
  IF off + 8 <= Len(bytes) /\ TagAt(bytes, off, TAG_CLIP)
    THEN <<[pos |-> off, len |-> from_be_bytes32(bytes, off + 4)]>>
           \o ClipsFrom(bytes, off + 8 + from_be_bytes32(bytes, off + 4))
    ELSE <<>>

\* The offset at which the clip chunks read from off on end.
ClipsEnd(bytes, off) ==
  LET clips == ClipsFrom(bytes, off)
  IN IF clips = <<>> THEN off
     ELSE clips[Len(clips)].pos + 8 + clips[Len(clips)].len

\* The clips of the list chunk.
Clips(bytes) == ClipsFrom(bytes, MobjOff(bytes) + 8)

\* The fields of the clip chunk at offset off.
ClipPathLen(bytes, off) == from_be_bytes32(bytes, off + 8)

ClipPath(bytes, off) == SubSeq(bytes, off + 13, off + 12 + ClipPathLen(bytes, off))

ClipRate(bytes, off) == from_be_bytes32(bytes, off + 12 + ClipPathLen(bytes, off))

ClipChannels(bytes, off) ==
  bytes[off + 17 + ClipPathLen(bytes, off)] * 256
    + bytes[off + 18 + ClipPathLen(bytes, off)]

ClipCount(bytes, off) == from_be_bytes32(bytes, off + 18 + ClipPathLen(bytes, off))

\* generate_aaf has returned.
ManifestWritten == pc \in {"mp3s", "done"}

\* C6: in the manifest every chunk length field (outer container, header
\* chunk, list chunk, every clip chunk) is the byte length of the payload of
\* its chunk, and the length of the outer container is the file size less 8.
C6_ChunkLengthsMatchPayloads ==
  ManifestWritten =>
    LET bytes == omf.bytes
        mobj == MobjOff(bytes)
    IN /\ from_be_bytes32(bytes, 4) = Len(bytes) - 8
       /\ from_be_bytes32(bytes, HeadPayloadOff - 4) = mobj - HeadPayloadOff
       /\ from_be_bytes32(bytes, mobj + 4) = Len(bytes) - (mobj + 8)
       /\ Len(Clips(bytes)) = Len(mono_paths)
       /\ ClipsEnd(bytes, mobj + 8) = Len(bytes)

\* Every clip chunk of the list chunk has its length patched, and the clips
\* fill the file to its end.
ClipsPatched(bytes) ==
  /\ ClipsEnd(bytes, MobjOff(bytes) + 8) = Len(bytes)
  /\ \A k \in 1..Len(Clips(bytes)) : Clips(bytes)[k].len # 0

\* A write that adds new to the end of old, from the position pos.
Appended(old, pos, new) ==
  /\ pos = Len(old)
  /\ Len(new) > Len(old)
  /\ SubSeq(new, 1, Len(old)) = old

\* A write at pos that changes old into new by filling the four bytes
\* reserved behind the tag of a chunk with the length of what follows them.
Patched(old, pos, new) ==
  /\ Len(new) = Len(old)
  /\ pos + 4 <= Len(old)
  /\ \/ TagAt(old, pos - 4, TAG_FORM)
     \/ TagAt(old, pos - 4, TAG_MOBJ)
     \/ TagAt(old, pos - 4, TAG_CLIP)
  /\ SubSeq(old, pos + 1, pos + 4) = PLACEHOLDER
  /\ \A i \in 1..Len(old) : (i <= pos \/ i > pos + 4) => new[i] = old[i]
  /\ from_be_bytes32(new, pos)
       = IF TagAt(old, pos - 4, TAG_FORM) THEN Len(old) - 8 ELSE Len(old) - (pos + 4)

\* C7: a step of generate_aaf that changes the manifest either appends at
\* its end or patches the four bytes reserved behind a tag, still zero, with
\* the length of the payload written since; the position is back at the end
\* of the data when the next clip or the end of the loop is reached; the
\* length of the list chunk is computed and patched with every clip length
\* patched and before the length of the outer container, which is patched last.
C7_ReserveThenPatch ==
  [][/\ (omf.exists /\ omf'.bytes # omf.bytes)
          => \/ Appended(omf.bytes, omf.pos, omf'.bytes)
             \/ Patched(omf.bytes, omf.pos, omf'.bytes)
     /\ (~omf.exists /\ omf'.exists)
          => /\ SubSeq(omf'.bytes, 5, 8) = PLACEHOLDER
             /\ TagAt(omf'.bytes, Len(omf'.bytes) - 8, TAG_MOBJ)
             /\ SubSeq(omf'.bytes, Len(omf'.bytes) - 3, Len(omf'.bytes)) = PLACEHOLDER
     /\ pc' \in {"aaf_clip", "aaf_mobj_seek"}
          => /\ omf'.pos = Len(omf'.bytes)
             /\ ClipsPatched(omf'.bytes)
             /\ Len(Clips(omf'.bytes)) = idx' - 1
     /\ pc' \in {"aaf_mobj_seek", "aaf_mobj_patch"}
          => /\ Len(Clips(omf'.bytes)) = Len(mono_paths)
             /\ ClipsPatched(omf'.bytes)
             /\ SubSeq(omf'.bytes, MobjOff(omf'.bytes) + 5, MobjOff(omf'.bytes) + 8)
                  = PLACEHOLDER
             /\ SubSeq(omf'.bytes, 5, 8) = PLACEHOLDER
     /\ pc' = "aaf_mobj_patch" => aaf'.end_pos = Len(omf'.bytes)
     /\ pc' \in {"aaf_form_seek", "aaf_form_patch"}
          => /\ from_be_bytes32(omf'.bytes, MobjOff(omf'.bytes) + 4)
                  = Len(omf'.bytes) - (MobjOff(omf'.bytes) + 8)
             /\ SubSeq(omf'.bytes, 5, 8) = PLACEHOLDER
     /\ (pc = "aaf_form_patch" /\ pc' = "mp3s")
          => from_be_bytes32(omf'.bytes, 4) = Len(omf'.bytes) - 8]_vars

\* The first clip is patched, the position is back at the end of the data,
\* and the second clip is about to be written.
C7_Witness ==
  /\ pc = "aaf_clip"
  /\ idx = 2
  /\ omf.pos = Len(omf.bytes)
  /\ Len(Clips(omf.bytes)) = 1
  /\ Clips(omf.bytes)[1].len # 0

\* The clips of the manifest, one per mono path and in their order, each
\* holding the path that begins with prefix and is spelled with forward
\* slashes, behind its length, then the sample rate, the channel count and the
\* sample count of the mono file, all big-endian.
ClipsDescribeMonoAssets(prefix) ==
  LET bytes == omf.bytes
      clips == Clips(bytes)
  IN /\ Len(clips) = Len(mono_paths)
     /\ ClipsEnd(bytes, MobjOff(bytes) + 8) = Len(bytes)
     /\ \A k \in 1..Len(clips) :
          LET off == clips[k].pos
              wav == wav_mono_dir[mono_paths[k]]
              path == prefix \o WAV_MONO_DIR \o <<"/">> \o mono_paths[k]
          IN /\ ClipPathLen(bytes, off) = Len(path)
             /\ clips[k].len = 4 + Len(path) + 10
             /\ ClipPath(bytes, off) = as_bytes(path)
             /\ ClipRate(bytes, off) = wav.sample_rate
             /\ ClipChannels(bytes, off) = 1
             /\ ClipCount(bytes, off) = Len(wav.samples)

\* C8 as stated: one clip per mono asset, in order, holding the path of the
\* asset relative to the stems root, forward slashes only, behind its length,
\* then sample rate, channel count and sample count, big-endian.
C8_ClipHoldsStemsRelativePath == ManifestWritten => ClipsDescribeMonoAssets(<<>>)

\* C8 as amended: the path a clip holds is "STEMS/" followed by the path of
\* the asset relative to the stems root; the rest as stated.
C8_ClipHoldsPrefixedPath == ManifestWritten => ClipsDescribeMonoAssets(STEMS_PREFIX)

\* A manifest of three clips was written on a platform whose separator is the
\* backslash.
C8_Witness ==
  /\ pc = "done"
  /\ aaf.sep = "\\"
  /\ Len(mono_paths) = 3
  /\ Len(Clips(omf.bytes)) = 3
  /\ ClipCount(omf.bytes, Clips(omf.bytes)[3].pos) > 0

\* The Members: the entries of the download directory that are .mp3 files
\* whose name does not contain "click", in the order of the listing.
Members == SelectSeq(download_dir, LAMBDA e : IsMp3(e.name) /\ ~IsClickName(e.name))

\* The mono file made from the input file called name.
MonoFileOf(name) == MONO_DIR_ABS \o mono_output_name(with_extension(name, WAV_EXT))

\* C9: the project document has one track per mono asset, that of the
\* Reference first and those of the Members behind it in the order of their
\* discovery, then one end-marker track: N + 1 tracks numbered 1..N + 1.
C9_TracksFollowMonoAssets ==
  project.exists =>
    LET n == Len(mono_paths)
        tracks == project.tracks
    IN /\ Len(tracks) = n + 1
       /\ \A i \in 1..(n + 1) : tracks[i].number = i
       /\ \A i \in 1..n :
            /\ tracks[i].source = "WAVE"
            /\ tracks[i].file = MONO_DIR_ABS \o mono_paths[i]
       /\ tracks[n + 1].source = "MIDI"
       /\ tracks[n + 1].name = MIDI_NAME
       /\ pc # "done" =>
            /\ n = Len(Members) + 1
            /\ tracks[1].file = MonoFileOf(click_path)
            /\ \A i \in 1..Len(Members) : tracks[i + 1].file = MonoFileOf(Members[i].name)

\* A project of the Reference, two Members and the end marker was written.
C9_Witness ==
  /\ project.exists
  /\ pc = "generate_aaf"
  /\ Len(Members) = 2
  /\ Len(project.tracks) = 4
  /\ project.tracks[4].number = 4
  /\ project.tracks[4].source = "MIDI"

\* C10: in the project document the track of the Reference is panned hard
\* left and the track of every Member hard right, whatever the files are named.
C10_ReferenceLeftMembersRight ==
  project.exists =>
    /\ project.tracks[1].pan = -1
    /\ \A i \in 2..Len(mono_paths) : project.tracks[i].pan = 1

\* The input files are still in the download directory.
InputsInPlace == pc # "done"

FracEq(a, b) == a.num * b.den = b.num * a.den

\* The duration of the stereo asset of the i-th track (the Reference, then
\* the Members as processed): its padding frames and its original frames,
\* over its sample rate.
StereoDuration(i) ==
  IF i = 1
    THEN [num |-> Frames(Decoded(click_path).samples),
          den |-> Decoded(click_path).spec.sample_rate]
    ELSE LET a == alignment[i - 1]
             rate == Decoded(a.path).spec.sample_rate
         IN [num |-> secs_times_rate_as_u32(a.padding_duration, rate)
                       + Frames(Decoded(a.path).samples),
             den |-> rate]

\* The item of the stem track i spans [0, the duration of its stereo asset].
StemItemSpansStereoAsset(i) ==
  /\ project.tracks[i].position = 0
  /\ FracEq(project.tracks[i].length, StereoDuration(i))

\* The item of the end marker spans [0, the longest stem item] and has its
\* two events at tick 0 and at tick = that duration * 120 * 960 / 60.
MarkerItemSpansLongest ==
  LET n == Len(mono_paths)
      marker == project.tracks[n + 1]
  IN /\ marker.position = 0
     /\ \A i \in 1..n : ~FracLT(marker.length, project.tracks[i].length)
     /\ \E i \in 1..n : FracEq(marker.length, project.tracks[i].length)
     /\ Len(marker.events) = 2
     /\ marker.events[1] = 0
     /\ marker.events[2] * marker.length.den * 60 = marker.length.num * 120 * 960

\* C11: the item of every stem track starts at 0 and is as long as the stereo
\* asset of its track (padding frames plus original frames, over the sample
\* rate); the item of the end marker is as long as the longest stem track and
\* has controller-off events at tick 0 and at maxDuration * 120 * 960 / 60.
C11_ItemLengthsAreTrackDurations ==
  (project.exists /\ InputsInPlace) =>
    /\ \A i \in 1..Len(mono_paths) : StemItemSpansStereoAsset(i)
    /\ MarkerItemSpansLongest

\* The positions of the bytes of the timestamp in the manifest.
TimestampBytes == (HeadPayloadOff + 5)..(HeadPayloadOff + 8)

\* Every identifier of the project is its template with the position of the
\* track (counted from 0) formatted into it.
IdentifiersFollowIndex(tracks) ==
  /\ \A i \in 1..(Len(tracks) - 1) :
       /\ tracks[i].trackid = TRACKID_STEM \o Decimal(i - 1)
       /\ tracks[i].iguid = IGUID_STEM \o Decimal(i - 1)
       /\ tracks[i].guid = GUID_STEM \o Decimal(i - 1)
  /\ tracks[Len(tracks)].trackid = TRACKID_MIDI \o Decimal(Len(tracks) - 1)
  /\ tracks[Len(tracks)].iguid = IGUID_MIDI \o Decimal(Len(tracks) - 1)
  /\ tracks[Len(tracks)].guid = GUID_MIDI \o Decimal(Len(tracks) - 1)

\* Both generators have run a second time.
GeneratedTwice == generated.exists /\ pc = "mp3s"

\* C12: a second run of the two generators on the unchanged mono assets
\* writes the same project document, whose identifiers all come from the
\* position of their track, and a manifest that differs from the first one
\* in the four bytes of the timestamp at most.
C12_RegenerationIsDeterministic ==
  GeneratedTwice =>
    /\ project = generated.project
    /\ IdentifiersFollowIndex(project.tracks)
    /\ Len(omf.bytes) = Len(generated.bytes)
    /\ \A i \in 1..Len(omf.bytes) :
         i \notin TimestampBytes => omf.bytes[i] = generated.bytes[i]

\* Two runs at different times, on different separator conventions, of a
\* session of three mono paths.
C12_Witness ==
  /\ GeneratedTwice
  /\ Len(mono_paths) = 3
  /\ omf.bytes # generated.bytes
  /\ aaf.sep = "\\"

\* The stereo file and the mono file of the input file called name are in
\* their directories, under the names move_wav_files and stereo_to_mono give.
AssetsWritten(name) ==
  /\ moved_wav_name(with_extension(name, WAV_EXT)) \in DOMAIN wav_st_dir
  /\ mono_output_name(with_extension(name, WAV_EXT)) \in DOMAIN wav_mono_dir

\* The stereo and the mono asset of the Reference and of every Member are
\* written, and the mono paths are all collected.
AllAssetsWritten ==
  /\ click_path \in Names(download_dir)
  /\ AssetsWritten(click_path)
  /\ \A i \in 1..Len(Members) : AssetsWritten(Members[i].name)
  /\ Len(mono_paths) = Len(Members) + 1
  /\ \A i \in 1..Len(mono_paths) : mono_paths[i] \in DOMAIN wav_mono_dir

\* The statements of process_downloads that decode, pad and downmix.
TrackStages ==
  {"get_mp3_duration", "process_click_track", "process_non_click_tracks",
   "convert_to_mono"}

\* C13: the project document and the manifest are created only when the
\* stereo asset and the mono asset of every track are written, and an error
\* of a decode, pad or downmix step returns with neither document created.
C13_DocumentsAfterAllAssets ==
  [][/\ (~project.exists /\ project'.exists) => AllAssetsWritten
     /\ (~omf.exists /\ omf'.exists) => (AllAssetsWritten /\ project.exists)
     /\ (pc \in TrackStages /\ pc' = "failed")
          => (~project'.exists /\ ~omf'.exists /\ pc' # "generate_reaper_project")]_vars

\* The project of a Reference and two Members has just been created.
C13_Witness ==
  /\ pc = "generate_aaf"
  /\ project.exists
  /\ ~omf.exists
  /\ Len(Members) = 2
  /\ AllAssetsWritten

\* C14: when process_downloads has returned an error, no project document
\* exists for the song.
C14_FailedSessionHasNoProject == pc = "failed" => ~project.exists

\* The names of the stem files of the song called title.
StemsOf(title) ==
  LET song == CHOOSE c \in Catalog : c.title = title
  IN {song.tracks[i].name : i \in 1..Len(song.tracks)}

\* C15: in a batch run the session produced for a song is made of the stem
\* files of that song only, whatever became of the songs before it.
C15_SessionUsesOwnStemsOnly ==
  \A k \in 1..Len(sessions) :
    sessions[k].ok =>
      /\ sessions[k].reference \in StemsOf(sessions[k].title)
      /\ \A i \in 1..Len(sessions[k].members) :
           sessions[k].members[i] \in StemsOf(sessions[k].title)

\* No entry of the directory has "click" in its name.
NoClickFile(dir) == \A i \in 1..Len(dir) : ~IsClickName(dir[i].name)

\* Nothing has been written below the song directory.
NothingWritten ==
  /\ wav_st_dir = EmptyDir
  /\ wav_mono_dir = EmptyDir
  /\ mp3_dir = EmptyDir
  /\ ~project.exists
  /\ ~omf.exists

\* C16: when no file of the download directory has "click" in its name,
\* find_tracks ends process_downloads with an error: no stereo or mono file,
\* no project and no manifest is written, no input file is moved or deleted,
\* and nothing happens afterwards.
C16_NoClickIsFatalAndWritesNothing ==
  [][/\ (pc = "find_tracks" /\ NoClickFile(download_dir))
          => /\ pc' = "failed"
             /\ download_dir' = download_dir
             /\ NothingWritten'
     /\ (pc = "failed" /\ click_path = <<>>) => UNCHANGED vars]_vars

C16_Witness ==
  /\ pc = "failed"
  /\ click_path = <<>>
  /\ NothingWritten
  /\ \E i, j \in 1..Len(download_dir) :
       i # j /\ IsMp3(download_dir[i].name) /\ IsMp3(download_dir[j].name)

\* No entry of the directory is an .mp3 file without "click" in its name.
NoMemberFile(dir) ==
  \A i \in 1..Len(dir) : IsClickName(dir[i].name) \/ ~IsMp3(dir[i].name)

\* process_downloads has returned for a directory with a Reference and no
\* Member.
ReferenceAloneReturned ==
  /\ click_path # <<>>
  /\ alignment = <<>>
  /\ \/ pc = "done"
     \/ pc = "failed" /\ NoMemberFile(download_dir)

\* C17 as stated: with a Reference and no Member file process_downloads
\* fails, and there is neither a project document nor a manifest.
C17_ReferenceAloneFails ==
  ReferenceAloneReturned => pc = "failed" /\ ~project.exists /\ ~omf.exists

\* C17, amended: a Reference without Member files is no discovery error;
\* find_tracks returns it with an empty list of Members, and a run that
\* finishes has a project document of one stem track and the end marker and
\* a manifest of one clip.
C17_ReferenceAloneIsProcessed ==
  [][/\ (pc = "find_tracks" /\ ~NoClickFile(download_dir)
           /\ NoMemberFile(download_dir))
          => pc' = "get_mp3_duration" /\ click_path' # <<>>
     /\ (pc' = "done" /\ alignment' = <<>>)
          => /\ project'.exists
             /\ Len(project'.tracks) = 2
             /\ project'.tracks[1].file = MonoFileOf(click_path')
             /\ project'.tracks[2].source = "MIDI"
             /\ omf'.exists
             /\ Len(Clips(omf'.bytes)) = 1]_vars

C17_Witness ==
  /\ pc = "done"
  /\ click_path # <<>>
  /\ alignment = <<>>
  /\ Len(project.tracks) = 2
  /\ Len(Clips(omf.bytes)) = 1

\* C18: a session has one Reference, and every other .mp3 file of the input
\* directory is one of its Members: when the documents are written, each
\* .mp3 file of the directory is the Reference or has been aligned to it.
C18_EveryMp3IsReferenceOrMember ==
  pc = "mp3s" =>
    \A i \in 1..Len(download_dir) :
      IsMp3(download_dir[i].name) =>
        \/ download_dir[i].name = click_path
        \/ \E k \in 1..Len(alignment) : alignment[k].path = download_dir[i].name

\* C19: a run that succeeds on one Reference and M Members has written
\* M + 1 mono files under pairwise different paths, and its manifest has
\* M + 1 clips.
C19_MonoAssetsAtDistinctPaths ==
  pc = "done" =>
    LET n == Len(alignment) + 1
    IN /\ Len(mono_paths) = n
       /\ \A i, j \in 1..Len(mono_paths) : mono_paths[i] = mono_paths[j] => i = j
       /\ Cardinality(DOMAIN wav_mono_dir) = n
       /\ Len(Clips(omf.bytes)) = n

\* The input file the i-th mono asset was made from: the Reference, then the
\* Members in the order of their alignment.
InputOf(i) == IF i = 1 THEN click_path ELSE alignment[i - 1].path

\* The name of a mono asset: the normalized track name, the mono suffix and
\* the extension.
MonoAssetName(input) ==
  normalize_track_name(file_stem(input)) \o MONO_TAG \o <<".">> \o WAV_EXT

\* C20: for every position i the i-th stem track of the project document
\* and the i-th clip of the manifest name the same file of the mono
\* directory, and the name of that file is the normalized track name of the
\* i-th input followed by the mono suffix.
C20_ArtifactsNameTheSameMonoAsset ==
  ManifestWritten =>
    /\ Len(Clips(omf.bytes)) = Len(mono_paths)
    /\ Len(project.tracks) = Len(mono_paths) + 1
    /\ Len(alignment) + 1 = Len(mono_paths)
    /\ \A i \in 1..Len(mono_paths) :
         LET asset == MonoAssetName(InputOf(i))
         IN /\ asset \in DOMAIN wav_mono_dir
            /\ project.tracks[i].file = MONO_DIR_ABS \o asset
            /\ project.tracks[i].item_name = asset
            /\ ClipPath(omf.bytes, Clips(omf.bytes)[i].pos)
                 = as_bytes(STEMS_PREFIX \o WAV_MONO_DIR \o <<"/">> \o asset)

C20_Witness ==
  /\ pc = "done"
  /\ Len(mono_paths) = 3
  /\ aaf.sep = "\\"
  /\ \A i, j \in 1..3 : mono_paths[i] = mono_paths[j] => i = j
  /\ project.tracks[3].file = MONO_DIR_ABS \o MonoAssetName(alignment[2].path)
  /\ normalize_track_name(file_stem(alignment[2].path)) # file_stem(alignment[2].path)

\* The file SpecDecode decodes.
UnitData == download_dir[1].data

\* decode_mp3 has returned its samples, and they are written to the stereo
\* file as they are.
UnitDecoded == pc = "process_non_click_tracks"

UnitSamples == wav_st_dir[click_wav_path].samples

\* The packets next_packet hands out before it returns an error.
RECURSIVE PacketsRead(_, _)
PacketsRead(packets, i) ==
  IF i > Len(packets) \/ packets[i].next # "Ok" THEN <<>>
  ELSE <<packets[i]>> \o PacketsRead(packets, i + 1)

\* The frames of the decoded buffers among the packets.
RECURSIVE FrameCount(_, _)
FrameCount(packets, i) ==
  IF i > Len(packets) THEN 0
  ELSE (IF packets[i].decoded \in {"F32", "S16"} THEN Len(packets[i].frames) ELSE 0)
         + FrameCount(packets, i + 1)

\* The Duration nearest to count / (channels * rate) seconds lies within one
\* nanosecond of the quotient rounded down.
IsDurationOf(d, count, channels, rate) ==
  LET den == channels * rate
      qr == MulDivRem(NANOS_PER_SEC, count % den, den)
      down == Duration(count \div den, qr[1])
  IN IF qr[2] = 0 THEN d = down
     ELSE d \in {down, DurationAdd(down, Duration(0, 1))}

\* C21: whenever decode_mp3 succeeds the format has 2 channels and the sample
\* count is even, two samples for every decoded frame of a one-channel or a
\* two-channel source; a one-channel source has its sample on both channels;
\* and the duration is sampleCount / (2 x sampleRate).
C21_DecodedIsForcedStereo ==
  UnitDecoded =>
    LET wav == wav_st_dir[click_wav_path]
        read == PacketsRead(UnitData.packets, 1)
        rate == IF UnitData.sample_rate = 0 THEN DEFAULT_SAMPLE_RATE
                                            ELSE UnitData.sample_rate
    IN /\ wav.channels = 2
       /\ wav.sample_rate = rate
       /\ Len(wav.samples) % 2 = 0
       /\ Len(wav.samples) = 2 * FrameCount(read, 1)
       /\ (\A i \in 1..Len(read) : read[i].channels = 1)
            => \A k \in 1..Frames(wav.samples) :
                 wav.samples[2 * k - 1] = wav.samples[2 * k]
       /\ IsDurationOf(click_duration, Len(wav.samples), 2, rate)

\* A file of a one-channel and a two-channel buffer was decoded.
C21_Witness ==
  /\ UnitDecoded
  /\ Len(UnitData.packets) = 2
  /\ UnitData.packets[1].channels = 1
  /\ UnitData.packets[2].channels = 2
  /\ UnitData.sample_rate = 3
  /\ Len(UnitSamples) = 6
  /\ click_duration = Duration(1, 0)

\* Reading the file meets an I/O or container error before anything else
\* ends the decoding: the probe fails, or next_packet or decode returns an
\* error that is no decode error, every packet before it having given a
\* buffer of a supported format or a decode error.
MeetsFatalError(data) ==
  \/ ~data.probe
  \/ /\ data.default_track
     /\ \E i \in 1..Len(data.packets) :
          /\ \A j \in 1..(i - 1) :
               /\ data.packets[j].next = "Ok"
               /\ data.packets[j].decoded \in {"F32", "S16", "DecodeError"}
          /\ \/ data.packets[i].next = "IoError"
             \/ data.packets[i].next = "Ok" /\ data.packets[i].decoded = "IoError"

\* C22: an I/O or container error at any point of the file makes decode_mp3
\* return an error; no samples of a part of the file are returned.
C22_FatalErrorAbortsTheFile ==
  (pc # "get_mp3_duration" /\ MeetsFatalError(UnitData)) =>
    /\ pc = "failed"
    /\ wav_st_dir = EmptyDir

\* The file is read to its end, and every packet of it gives a buffer of a
\* supported format or a decode error.
OnlyDecodeErrors(data) ==
  /\ data.probe
  /\ data.default_track
  /\ \A i \in 1..Len(data.packets) :
       /\ data.packets[i].next = "Ok"
       /\ data.packets[i].decoded \in {"F32", "S16", "DecodeError"}

\* The samples of the buffers from the i-th on, one buffer after the other.
RECURSIVE SamplesOfBuffers(_, _)
SamplesOfBuffers(buffers, i) ==
  IF i > Len(buffers) THEN <<>>
  ELSE BufferSamples(buffers[i], 1) \o SamplesOfBuffers(buffers, i + 1)

\* C23: a decode error of one frame does not fail decode_mp3: the frame
\* gives no samples, and the samples returned are those of all the other
\* frames, in their order.
C23_DecodeErrorsAreSkipped ==
  (pc # "get_mp3_duration" /\ OnlyDecodeErrors(UnitData)) =>
    /\ pc # "failed"
    /\ UnitDecoded =>
         UnitSamples =
           SamplesOfBuffers(SelectSeq(UnitData.packets,
                                      LAMBDA p : p.decoded # "DecodeError"), 1)

\* A file was decoded whose second frame of three gave a decode error.
C23_Witness ==
  /\ UnitDecoded
  /\ OnlyDecodeErrors(UnitData)
  /\ Len(UnitData.packets) = 3
  /\ UnitData.packets[1].decoded = "S16"
  /\ UnitData.packets[2].decoded = "DecodeError"
  /\ UnitData.packets[3].decoded = "F32"
  /\ Len(UnitSamples) = Len(BufferSamples(UnitData.packets[1], 1))
                          + Len(BufferSamples(UnitData.packets[3], 1))

\* The decoding comes to a buffer that is neither F32 nor S16, every packet
\* before it having given a buffer of a supported format or a decode error.
MeetsOtherFormat(data) ==
  \E i \in 1..Len(data.packets) :
    /\ \A j \in 1..(i - 1) :
         /\ data.packets[j].next = "Ok"
         /\ data.packets[j].decoded \in {"F32", "S16", "DecodeError"}
    /\ data.packets[i].next = "Ok"
    /\ data.packets[i].decoded = "U8"

\* C24: decode_mp3 fails, returning no samples, for a container without a
\* default track, and fails at the first decoded buffer that is neither F32
\* nor S16, whatever was decoded before it.
C24_NoTrackOrOtherFormatFails ==
  (/\ pc # "get_mp3_duration"
   /\ UnitData.probe
   /\ ~UnitData.default_track \/ MeetsOtherFormat(UnitData)) =>
    /\ pc = "failed"
    /\ click_duration = ZERO
    /\ wav_st_dir = EmptyDir

\* decode_mp3 failed at the third buffer of a file, the two before it
\* decoded.
C24_Witness ==
  /\ pc = "failed"
  /\ UnitData.default_track
  /\ Len(UnitData.packets) = 3
  /\ UnitData.packets[1].decoded = "S16"
  /\ UnitData.packets[2].decoded = "F32"
  /\ UnitData.packets[3].decoded = "U8"

\* The input files of the session that have been decoded so far.
SessionInputs ==
  (IF click_wav_path = <<>> THEN {} ELSE {click_path})
    \cup {alignment[i].path : i \in 1..Len(alignment)}

\* The sample rate the decoder reports for the input file called name.
SourceRate(name) ==
  LET data == DataOf(download_dir, name)
  IN IF data.sample_rate = 0 THEN DEFAULT_SAMPLE_RATE ELSE data.sample_rate

\* C25: every stereo asset is 16-bit with 2 channels and every mono asset
\* 16-bit with 1 channel, each at the sample rate the decoder reports for
\* its source file; the mono asset has the sample rate and the bit depth of
\* the stereo asset it is made from.
C25_AssetFormatsFollowTheSource ==
  /\ \A f \in DOMAIN wav_st_dir :
       /\ wav_st_dir[f].channels = 2
       /\ wav_st_dir[f].bits_per_sample = 16
       /\ InputsInPlace =>
            \E input \in SessionInputs :
              /\ wav_st_dir[f].sample_rate = SourceRate(input)
              /\ pc \in StereoStage => f = with_extension(input, WAV_EXT)
  /\ \A f \in DOMAIN wav_mono_dir :
       /\ wav_mono_dir[f].channels = 1
       /\ wav_mono_dir[f].bits_per_sample = 16
       /\ InputsInPlace =>
            \E input \in SessionInputs :
              /\ f = MonoAssetName(input)
              /\ wav_mono_dir[f].sample_rate = SourceRate(input)
       /\ pc \in StereoStage =>
            \E g \in DOMAIN wav_st_dir :
              /\ f = mono_output_name(g)
              /\ wav_mono_dir[f].sample_rate = wav_st_dir[g].sample_rate
              /\ wav_mono_dir[f].bits_per_sample = wav_st_dir[g].bits_per_sample

\* The mono assets of two sources of different sample rates are written.
C25_Witness ==
  /\ pc = "move_wav_files"
  /\ \E f, g \in DOMAIN wav_mono_dir :
       /\ wav_mono_dir[f].sample_rate = 2
       /\ wav_mono_dir[g].sample_rate = 3
  /\ \E f, g \in DOMAIN wav_st_dir :
       /\ wav_st_dir[f].sample_rate = 2
       /\ wav_st_dir[g].sample_rate = 3

\* C26: at every click on the download button made with the count-in
\* checkbox found, the checkbox of the page is as the count_in option asks
\* for the first track and unchecked for every later track, and the tracked
\* state is the state of the checkbox.
C26_CountInOnFirstTrackOnly ==
  \A k \in 1..Len(tab.downloads) :
    LET d == tab.downloads[k]
    IN d.toggle =>
         /\ d.index = 0 => d.precount = tab.count_in
         /\ d.index > 0 => ~d.precount
         /\ d.tracked = d.precount

\* The first track was downloaded with the count-in switched on for it, and
\* the second with the count-in switched off again.
C26_Witness ==
  /\ tab.pc = "returned_ok"
  /\ tab.count_in
  /\ Len(tab.downloads) = 3
  /\ \A k \in 1..3 : tab.downloads[k].toggle
  /\ tab.downloads[1].precount
  /\ ~tab.downloads[2].precount
  /\ ~tab.downloads[3].precount

\* The .mp3 entries of a directory listing.
Mp3Entries(dir) == SelectSeq(dir, LAMBDA e : IsMp3(e.name))

\* The name move_mp3s gives the input file called name.
Mp3NameOf(name) == normalize_track_name(name) \o <<".">> \o MP3_EXT

\* C27: the input files stay as they are until the project document and the
\* manifest are written; the step that then ends process_downloads leaves no
\* .mp3 file in the download directory, and with keep_mp3s every one of them
\* is then in the MP3 directory under its normalized name, and without
\* keep_mp3s none is.
C27_Mp3sMovedOrDeletedAtTheEnd ==
  [][/\ Mp3Entries(download_dir') # Mp3Entries(download_dir)
          => pc = "mp3s" /\ project.exists /\ omf.exists
     /\ mp3_dir' # mp3_dir => pc = "mp3s"
     /\ pc' = "done"
          => /\ Mp3Entries(download_dir') = <<>>
             /\ keep_mp3s =>
                  \A i \in 1..Len(download_dir) :
                    IsMp3(download_dir[i].name) =>
                      /\ Mp3NameOf(download_dir[i].name) \in DOMAIN mp3_dir'
                      /\ mp3_dir'[Mp3NameOf(download_dir[i].name)]
                           = download_dir[i].data
             /\ ~keep_mp3s => mp3_dir' = EmptyDir]_vars

\* The entries of the log of a run are those of the urls from skip_count
\* on, one after the other.
LoggedInListOrder(log) ==
  \A k \in 1..Len(log) :
    /\ log[k].index <= Len(urls)
    /\ log[k].index = skip_count + k

\* C28: a url below the skip count, or one whose song folder exists, is
\* neither downloaded nor processed; the loop takes the other urls one after
\* the other in list order, and when it ends none of them is left out.
C28_SkippedTracksAreNotTouched ==
  [][/\ (pc' = "download_song" /\ pc # "download_song")
          => /\ index' > skip_count
             /\ ~check_folder_exists(download_dir', urls'[index'].title)
     /\ pc' = "create_dirs" => pc = "download_song" /\ index' = index
     /\ download_dir' # download_dir
          => pc \in {"download_song", "create_dirs", "mp3s", "done"}
     /\ LoggedInListOrder(sessions')
     /\ \A k \in 1..Len(sessions') :
          sessions'[k].skipped
            => sessions'[k].reference = <<>> /\ ~sessions'[k].project
     /\ pc' = "batch_done"
          => Len(sessions')
               = (IF Len(urls') > skip_count THEN Len(urls') - skip_count ELSE 0)]_vars

\* A run of two urls with a skip count of one that follows a first run: the
\* first url is not logged, the second is passed over for its folder and is
\* the only entry of the log of the run.
C28_Witness ==
  /\ pc = "batch_done"
  /\ run = 2
  /\ skip_count = 1
  /\ Len(urls) = 2
  /\ Len(sessions) = 1
  /\ sessions[1].skipped
  /\ sessions[1].index = 2

\* The step logs the failure of download_song or of process_downloads.
FailureLogged ==
  /\ Len(sessions') = Len(sessions) + 1
  /\ ~sessions'[Len(sessions')].ok
  /\ ~sessions'[Len(sessions')].skipped

C30_FolderMeansProcessed ==
  \A k \in 1..Len(sessions) :
    sessions[k].skipped =>
      \E i \in 1..Len(download_dir) :
        /\ download_dir[i].name = sessions[k].title
        /\ download_dir[i].complete

\* C31: when start_download has returned after spawning the keep-alive
\* thread, on whichever path, the flag of the thread is set and the thread is
\* joined; and the thread makes at most one more ping once the flag is set.
C31_ThreadStoppedAndJoinedOnReturn ==
  /\ tab.pc = "returned" => tab.keep_alive_flag /\ tab.joined
  /\ tab.late <= 1

\* C32: when download_song has returned, with the track names or with an
\* error, the temporary tab it opened is not open any more.
C32_TemporaryTabClosedOnReturn ==
  tab.pc = "returned" => ~tab.open

\* A click was made on the page of the temporary tab.
PageClicked ==
  \/ tab.pitch_clicks > 0
  \/ tab.reloads > 0
  \/ tab.solo_clicks > 0
  \/ tab.download_clicks > 0

\* C33: a page that is not a song page, or whose track is not purchased,
\* makes download_song return NotASongPage or NotPurchased, and no pitch
\* button, solo button or download button is ever clicked on it.
C33_ChecksComeBeforeAnyClick ==
  /\ PageClicked => is_a_song_page(tab) /\ ~tab.addtocart
  /\ tab.result = "NotASongPage" => ~is_a_song_page(tab) /\ ~PageClicked
  /\ tab.result = "NotPurchased"
       => is_a_song_page(tab) /\ tab.addtocart /\ ~PageClicked
  /\ (tab.pc = "returned" /\ tab.result # "BrowserError")
       => /\ ~is_a_song_page(tab) => tab.result = "NotASongPage"
          /\ (is_a_song_page(tab) /\ tab.addtocart) => tab.result = "NotPurchased"

\* A song page whose track is in the cart only: download_song has returned
\* NotPurchased, the tab having been opened.
C33_Witness ==
  /\ tab.pc = "returned"
  /\ tab.result = "NotPurchased"
  /\ tab.open
  /\ tab.has_mixer

\* adjust_pitch is running.
InAdjustPitch == tab.pc \in {"adjust_pitch", "pitch_loop"}

\* What adjust_pitch has done so far is what it may do: at most
\* ITERATIONS_ALLOWED clicks, all on the button chosen from the first
\* difference, none and no reload when there was no difference; it has
\* returned Ok only with the label showing the desired pitch, and has
\* panicked only after ITERATIONS_ALLOWED clicks that did not reach it.
AdjustPitchBounded ==
  /\ tab.pitch_clicks <= ITERATIONS_ALLOWED
  /\ tab.first_pitch = tab.desired => tab.pitch_clicks = 0 /\ tab.reloads = 0
  /\ tab.pitch_clicks > 0
       => tab.button = (IF tab.desired > tab.first_pitch THEN 1 ELSE -1)
  /\ tab.pc \in {"tracks", "close"}
       => /\ tab.pitch = tab.desired
          /\ tab.reloads = (IF tab.first_pitch = tab.desired THEN 0 ELSE 1)
  /\ tab.result = "panic"
       => tab.pitch_clicks = ITERATIONS_ALLOWED /\ tab.pitch # tab.desired

\* C34: adjust_pitch always terminates, by returning or by aborting, and
\* while it runs it clicks nothing when the pitch shown is the desired one,
\* otherwise at most ten times the button chosen from the first difference,
\* and returns Ok only once the pitch shown is the desired one.
C34_AdjustPitchTerminates ==
  /\ []AdjustPitchBounded
  /\ InAdjustPitch ~> ~InAdjustPitch

\* Ten clicks did not bring the label to the desired pitch: adjust_pitch
\* has aborted.
C34_Witness ==
  /\ tab.result = "panic"
  /\ tab.pitch_clicks = ITERATIONS_ALLOWED

\* C35: wait_for_download returns the name of a file only if the file was
\* not in the snapshot, has not the extension of a download in progress and
\* had the same size, not zero, at two reads; otherwise it returns
\* DownloadTimeout, and not before the timeout has elapsed.
C35_OnlyNewStableFileOrTimeout ==
  tab.pc = "returned" =>
    IF tab.result = "Ok"
      THEN /\ tab.filename \notin tab.initial_files
           /\ extension(tab.filename) \notin TEMP_EXTENSIONS
           /\ tab.size1 = tab.size2
           /\ tab.size1 > 0
      ELSE /\ tab.result = "DownloadTimeout"
           /\ tab.elapsed >= MaxPolls

\* C36: a download the browser has completed while wait_for_download had
\* still two turns of its loop to make (one to find the file, one more for
\* its size to be read as settled) is reported as a success, however the
\* browser's writing fell between the click, the snapshot and the loop.
C36_CompletedDownloadIsDetected ==
  (/\ tab.pc = "returned"
   /\ tab.browser = "complete"
   /\ tab.complete_at + 2 <= MaxPolls)
    => tab.result = "Ok" /\ tab.filename = DownloadNames.new

\* C37: sign_in returns Ok only on a tab on which validate_session has
\* answered true, by the restored cookie, by the session found on the login
\* page and by the fresh login alike; a fresh login whose session is not
\* valid returns the error, and a session cookie is saved by a validated
\* fresh login only.
C37_OkOnlyAfterValidSession ==
  /\ tab.result = "Ok" =>
       /\ validate_session(tab.page)
       /\ tab.path \in {"restored", "already", "fresh"}
  /\ (tab.pc = "returned" /\ tab.path = "fresh" /\ ~validate_session(tab.page)) =>
       /\ tab.result = "LoginFailed"
       /\ tab.keystore # "new"
  /\ tab.keystore = "new" =>
       /\ tab.result = "Ok"
       /\ tab.path = "fresh"
       /\ validate_session(tab.page)

\* The cookie of an earlier run was not accepted, the fresh login was made
\* and validated by the account page opening, and its cookie was saved.
C37_Witness ==
  /\ tab.pc = "returned"
  /\ tab.result = "Ok"
  /\ tab.path = "fresh"
  /\ tab.page.url = "account"
  /\ ~tab.page.indicator
  /\ tab.keystore = "new"

\* C38: in a project document written for any number of mono files, the end
\* marker's track included, no two tracks have the same TRACKID and no two
\* items the same IGUID or the same GUID.
C38_IdentifiersAreDistinct ==
  tab.pc = "written" =>
    /\ Len(tab.tracks) = Len(tab.mono_paths) + 1
    /\ \A i \in DOMAIN tab.tracks : \A j \in DOMAIN tab.tracks :
         i # j =>
           /\ tab.tracks[i].trackid # tab.tracks[j].trackid
           /\ tab.tracks[i].iguid # tab.tracks[j].iguid
           /\ tab.tracks[i].guid # tab.tracks[j].guid

\* A document of eleven stem tracks, the last with the two-digit index 10,
\* and the end marker after them.
C38_Witness ==
  /\ tab.pc = "written"
  /\ Len(tab.tracks) >= 12
  /\ tab.tracks[11].trackid = TRACKID_STEM \o <<"1", "0">>
  /\ tab.tracks[12].source = "MIDI"

=============================================================================
